---- MODULE Spec2Model ----
(***************************************************************************)
(* MissionControl backend: the request-authorization chain (token codec,   *)
(* require_auth, require_admin, the admin handlers' self-protection rule)  *)
(* and the tri-state partial update of tasks, as a state machine over the  *)
(* two MongoDB collections, the tokens clients hold and the requests in    *)
(* flight.                                                                 *)
(***************************************************************************)
EXTENDS Integers, Sequences, FiniteSets, TLC

VARIABLES
    now,      \* the wall clock (Utc::now), in seconds
    users,    \* the "users" collection: _id -> document
    nextUser, \* how many account ids (Uuid::new_v4) were generated so far
    tokens,   \* the session tokens minted so far and held by clients
    tasks,    \* the "tasks" collection: _id -> document
    nextTask, \* how many task ids (Uuid::new_v4) were generated so far
    nextNote, \* how many note ids (Uuid::new_v4) were generated so far
    req       \* the requests in flight, one per connection slot

vars == <<now, users, nextUser, tokens, tasks, nextTask, nextNote, req>>

(***************************************************************************)
(* Bounds of the model.                                                    *)
(***************************************************************************)
\* Clients hold at most this many distinct tokens.
MaxTokens == 3
\* A request body to update_task mentions at most this many keys.
MaxPatchKeys == 2
\* The pieces in the text of a status parameter.
MaxStatusLen == 3

Requests == {"r1", "r2"}
\* The task routes and the token codec are exercised one request at a time.
TaskSlots == {"r1"}

(***************************************************************************)
(* Option<T>, Result<T, E>                                                 *)
(***************************************************************************)
None == [tag |-> "None"]
Some(x) == [tag |-> "Some", v |-> x]
IsSome(o) == o.tag = "Some"
IsNone(o) == o.tag = "None"

Ok(x) == [ok |-> TRUE, v |-> x]
Err(e) == [ok |-> FALSE, v |-> e]

(***************************************************************************)
(* JSON / BSON values                                                      *)
(***************************************************************************)
JNull == [t |-> "null"]
JStr(s) == [t |-> "str", s |-> s]
JNum(n) == [t |-> "num", n |-> n]
JObj(o) == [t |-> "obj", o |-> o]
BDate(n) == [t |-> "date", n |-> n]
BArr(a) == [t |-> "arr", a |-> a]

\* A JSON object holding the keys of `full` whose value is not Missing.
Missing == [t |-> "missing"]
Object(full) ==
    LET keys == {k \in DOMAIN full : full[k].t # "missing"}
    IN  [k \in keys |-> full[k]]

(***************************************************************************)
(* errors.rs                                                               *)
(***************************************************************************)
NotFound == [kind |-> "NotFound", msg |-> ""]
Unauthorized == [kind |-> "Unauthorized", msg |-> ""]
Forbidden == [kind |-> "Forbidden", msg |-> ""]
BadRequest(m) == [kind |-> "BadRequest", msg |-> m]
Conflict(m) == [kind |-> "Conflict", msg |-> m]

\* AppError::Internal(e), AppError::Database(e): e is the underlying error.
Internal(e) == [kind |-> "Internal", msg |-> e]
Database(e) == [kind |-> "Database", msg |-> e]

\* The underlying errors of a failed store round trip or signing.
Failures == {"connection reset", "server selection timeout"}

\* Every AppError over the messages the handlers and the failures give.
AppErrors ==
    {NotFound, Unauthorized, Forbidden}
        \cup {BadRequest(m) : m \in {"page must be >= 1", "Cannot change your own role"}}
        \cup {Conflict(m) : m \in {"Email or username already taken"}}
        \cup {Internal(e) : e \in Failures}
        \cup {Database(e) : e \in Failures}

\* A response that carries the text of the underlying error.
IntoResponse_Detail(e) ==
    CASE e.kind = "NotFound" -> [status |-> 404, body |-> [error |-> "Not found"]]
      [] e.kind = "Unauthorized" -> [status |-> 401, body |-> [error |-> "Unauthorized"]]
      [] e.kind = "Forbidden" -> [status |-> 403, body |-> [error |-> "Forbidden"]]
      [] e.kind = "BadRequest" -> [status |-> 400, body |-> [error |-> e.msg]]
      [] e.kind = "Conflict" -> [status |-> 409, body |-> [error |-> e.msg]]
      [] e.kind = "Internal" -> [status |-> 500, body |-> [error |-> e.msg]]
      [] e.kind = "Database" -> [status |-> 500, body |-> [error |-> e.msg]]

\* impl IntoResponse for AppError
IntoResponse(e) ==
    CASE e.kind = "NotFound" -> [status |-> 404, body |-> [error |-> "Not found"]]
      [] e.kind = "Unauthorized" -> [status |-> 401, body |-> [error |-> "Unauthorized"]]
      [] e.kind = "Forbidden" -> [status |-> 403, body |-> [error |-> "Forbidden"]]
      [] e.kind = "BadRequest" -> [status |-> 400, body |-> [error |-> e.msg]]
      [] e.kind = "Conflict" -> [status |-> 409, body |-> [error |-> e.msg]]
      [] e.kind = "Internal" ->
            [status |-> 500, body |-> [error |-> "Internal server error"]]
      [] e.kind = "Database" -> [status |-> 500, body |-> [error |-> "Database error"]]

(***************************************************************************)
(* The clock                                                               *)
(***************************************************************************)
TokenLifetimeHours == 24
TokenLifetime == TokenLifetimeHours * 3600
\* jsonwebtoken's Validation::default(): leeway of 60 seconds on exp.
Leeway == 60

\* The instants at which the clock is read: the start, and around one token
\* lifetime later: one second before and after, at the leeway and one second
\* past it.
ClockOffsets == {-1, 1, Leeway, Leeway + 1}
ClockTargets == {0} \cup {TokenLifetime + o : o \in ClockOffsets}

\* Whole days: enough where the time is only stamped.
DayTargets == {0, TokenLifetime}

Tick(targets) ==
    /\ \E t \in targets : t > now /\ now' = t
    /\ UNCHANGED <<users, nextUser, tokens, tasks, nextTask, nextNote, req>>

(***************************************************************************)
(* Token codec: jsonwebtoken encode / decode (HS256)                       *)
(***************************************************************************)
JwtSecret == "jwt_secret"

\* The MAC of a message under a key: equal only for equal key and message.
HS256(key, msg) == [key |-> key, msg |-> msg]

NoClaims == [sub |-> "", email |-> "", role |-> "", exp |-> 0]

encode(claims, secret) ==
    [wf |-> TRUE, claims |-> claims, sig |-> HS256(secret, claims)]

MalformedToken == [wf |-> FALSE, claims |-> NoClaims, sig |-> HS256("", NoClaims)]

\* Claims that carry the role every new account starts with.
mint_claimsAt_DefaultRole(id, user, t) ==
    [sub |-> id, email |-> user.email, role |-> "user", exp |-> t + TokenLifetime]

\* user: the account document; t: the clock reading.
mint_claimsAt(id, user, t) ==
    [sub |-> id, email |-> user.email, role |-> user.role, exp |-> t + TokenLifetime]

mint_token(id, user, secret, t) == encode(mint_claimsAt(id, user, t), secret)

\* Expiry without any leeway.
ExpiredAt_Strict(exp, t) == exp < t

\* Validation::default(): validate_exp with the default leeway.
ExpiredAt(exp, t) == exp < t - Leeway

decode(token, secret, t) ==
    IF ~token.wf THEN Err("InvalidToken")
    ELSE IF token.sig # HS256(secret, token.claims) THEN Err("InvalidSignature")
    ELSE IF ExpiredAt(token.claims.exp, t) THEN Err("ExpiredSignature")
    ELSE Ok(token.claims)

(***************************************************************************)
(* Requests and the router (routes/mod.rs)                                 *)
(***************************************************************************)
NoHeader == [kind |-> "absent", token |-> MalformedToken]
\* An Authorization header that does not start with "Bearer ".
OtherScheme == [kind |-> "other", token |-> MalformedToken]
Bearer(tok) == [kind |-> "bearer", token |-> tok]

\* A token signed by somebody who does not know the server's secret.
ForgedToken ==
    encode([sub |-> "u1", email |-> "e1", role |-> "admin",
            exp |-> 3 * TokenLifetime], "attacker_secret")
\* A minted token whose payload was edited, its signature kept.
Tampered(tok) ==
    [tok EXCEPT !.claims.role = IF @ = "admin" THEN "user" ELSE "admin"]

Headers ==
    {NoHeader, OtherScheme, Bearer(MalformedToken), Bearer(ForgedToken)}
        \cup {Bearer(t) : t \in tokens}
        \cup {Bearer(Tampered(t)) : t \in tokens}

IdleReq ==
    [pc |-> "idle", route |-> "", header |-> NoHeader, stage |-> 0,
     claims |-> None, trace |-> <<>>, path |-> "", body |-> None,
     patch |-> None, set_doc |-> None, status |-> 0, out |-> None]

NewRequest(route, header) ==
    [IdleReq EXCEPT !.pc = "run", !.route = route, !.header = header]

PublicRoutes == {"health_check", "register", "login"}
AdminRoutes ==
    {"admin_list_users", "admin_update_user", "admin_delete_user", "admin_update_role"}
AccountRoutes == PublicRoutes \cup AdminRoutes \cup {"me", "list_users"}
TaskRoutes == {"create_task", "update_task"}
CtiRoutes ==
    {"list_categories", "create_category", "delete_category",
     "list_types", "create_type", "delete_type",
     "list_items", "create_item", "delete_item"}
\* Every route of build_router.
AllRoutes ==
    PublicRoutes \cup AdminRoutes \cup CtiRoutes
        \cup {"me", "get_dashboard", "list_users", "list_tasks", "create_task",
              "get_task", "update_task", "delete_task", "add_note", "delete_note"}
\* The routes that write one entity by id, and the task routes around them.
PatchRoutes ==
    TaskRoutes \cup {"add_note", "delete_task", "admin_update_user", "admin_update_role",
                    "admin_delete_user"}
\* The routes that write the notes of a task, and those that create and
\* delete the task.
NoteRoutes == {"create_task", "add_note", "delete_note", "delete_task"}
\* The routes that reject a request on a business rule, and create_task.
RuleRoutes ==
    {"create_task", "list_tasks", "admin_update_role", "admin_delete_user"}

\* The first connection carries any request; the second one carries, beside
\* it, the logins and the account mutations of a client that presents a
\* minted token.
SlotRoutes(r) ==
    IF r = "r1" THEN AllRoutes
    ELSE {"login", "admin_update_role", "admin_delete_user",
          "create_task", "list_tasks", "update_task", "add_note", "delete_note",
          "delete_task"}

SlotHeaders(r) ==
    IF r = "r1" THEN Headers ELSE {Bearer(t) : t \in tokens}

\* .layer(middleware::from_fn(require_admin)) on admin_routes
AdminLayer == <<"require_admin">>
\* .layer(middleware::from_fn_with_state(state, require_auth)) on
\* protected_routes, after admin_routes was merged into it: the outer layer.
ProtectedLayer == <<"require_auth">>

\* A router that registers the task list among the public routes.
Layers_OpenListing(route) ==
    IF route \in PublicRoutes \cup {"list_tasks"} THEN <<>>
    ELSE IF route \in AdminRoutes THEN ProtectedLayer \o AdminLayer
    ELSE ProtectedLayer

\* The role gate as the outer layer.
Layers_AdminFirst(route) ==
    IF route \in PublicRoutes THEN <<>>
    ELSE IF route \in AdminRoutes THEN AdminLayer \o ProtectedLayer
    ELSE ProtectedLayer

Layers(route) ==
    IF route \in PublicRoutes THEN <<>>
    ELSE IF route \in AdminRoutes THEN ProtectedLayer \o AdminLayer
    ELSE ProtectedLayer

NextStage(q) ==
    IF q.stage < Len(Layers(q.route)) THEN Layers(q.route)[q.stage + 1]
    ELSE "handler"

\* The requests slot r may run its next stage on: a request arriving on a free
\* slot runs its first stage at once; a request in the chain runs its next.
Incoming(r, routes) ==
    IF req[r].pc = "idle"
    THEN UNION {{NewRequest(route, h) :
                    h \in IF route \in PublicRoutes THEN {NoHeader}
                          ELSE SlotHeaders(r)} :
                route \in routes \cap SlotRoutes(r)}
    ELSE IF req[r].pc = "run" /\ req[r].route \in routes THEN {req[r]}
    ELSE {}

Respond(q, resp) ==
    [q EXCEPT !.pc = "done", !.status = resp.status, !.out = resp.body]

Entered(q, stage) == [q EXCEPT !.trace = Append(@, stage)]

(***************************************************************************)
(* middleware/auth.rs, middleware/admin.rs                                 *)
(***************************************************************************)
\* A gate that also looks the token's account up in the store.
require_auth_KnownAccount(q, t) ==
    LET q1 == Entered(q, "require_auth")
    IN  IF q.header.kind # "bearer" THEN Respond(q1, IntoResponse(Unauthorized))
        ELSE LET token_data == decode(q.header.token, JwtSecret, t)
             IN  IF ~token_data.ok \/ token_data.v.sub \notin DOMAIN users
                 THEN Respond(q1, IntoResponse(Unauthorized))
                 ELSE [q1 EXCEPT !.claims = Some(token_data.v), !.stage = @ + 1]

require_auth(q, t) ==
    LET q1 == Entered(q, "require_auth")
    IN  IF q.header.kind # "bearer" THEN Respond(q1, IntoResponse(Unauthorized))
        ELSE LET token_data == decode(q.header.token, JwtSecret, t)
             IN  IF ~token_data.ok THEN Respond(q1, IntoResponse(Unauthorized))
                 ELSE [q1 EXCEPT !.claims = Some(token_data.v), !.stage = @ + 1]

\* A role gate that lets every authenticated request through.
require_admin_AnyRole(q) ==
    LET q1 == Entered(q, "require_admin")
    IN  IF IsNone(q.claims) THEN Respond(q1, IntoResponse(Unauthorized))
        ELSE [q1 EXCEPT !.stage = @ + 1]

\* A role gate that looks the account's current role up in the store.
require_admin_StoredRole(q) ==
    LET q1 == Entered(q, "require_admin")
    IN  IF IsNone(q.claims) THEN Respond(q1, IntoResponse(Unauthorized))
        ELSE IF \/ q.claims.v.sub \notin DOMAIN users
                \/ users[q.claims.v.sub].role # "admin"
             THEN Respond(q1, IntoResponse(Forbidden))
        ELSE [q1 EXCEPT !.stage = @ + 1]

require_admin(q) ==
    LET q1 == Entered(q, "require_admin")
    IN  IF IsNone(q.claims) THEN Respond(q1, IntoResponse(Unauthorized))
        ELSE IF q.claims.v.role # "admin" THEN Respond(q1, IntoResponse(Forbidden))
        ELSE [q1 EXCEPT !.stage = @ + 1]

RequireAuth(r, routes) ==
    /\ \E q \in Incoming(r, routes) :
          /\ NextStage(q) = "require_auth"
          /\ req' = [req EXCEPT ![r] = require_auth(q, now)]
    /\ UNCHANGED <<now, users, nextUser, tokens, tasks, nextTask, nextNote>>

RequireAdmin(r, routes) ==
    /\ \E q \in Incoming(r, routes) :
          /\ NextStage(q) = "require_admin"
          /\ req' = [req EXCEPT ![r] = require_admin(q)]
    /\ UNCHANGED <<now, users, nextUser, tokens, tasks, nextTask, nextNote>>

\* The response is written out and the slot is free again.
Complete(r) ==
    /\ req[r].pc = "done"
    /\ req' = [req EXCEPT ![r] = IdleReq]
    /\ UNCHANGED <<now, users, nextUser, tokens, tasks, nextTask, nextNote>>

(***************************************************************************)
(* serde: decoding of a JSON request body (handlers/tasks.rs)              *)
(***************************************************************************)
DeString(j) == IF j.t = "str" THEN Ok(j.s) ELSE Err("invalid type")

CtiKeys == {"category_id", "type_id", "item_id"}

\* #[derive(Deserialize)] struct CtiSelection: three required strings;
\* keys it does not know are ignored.
DeCtiSelection(j) ==
    IF j.t # "obj" THEN Err("invalid type")
    ELSE IF ~(CtiKeys \subseteq DOMAIN j.o) THEN Err("missing field")
    ELSE IF \E k \in CtiKeys : j.o[k].t # "str" THEN Err("invalid type")
    ELSE Ok([category_id |-> j.o["category_id"].s,
             type_id |-> j.o["type_id"].s,
             item_id |-> j.o["item_id"].s])

\* T::deserialize, for the two types the nullable fields hold.
Deserialize(T, j) == IF T = "String" THEN DeString(j) ELSE DeCtiSelection(j)

\* Option::<T>::deserialize: null is None, anything else is Some(T).
DeOption(T, j) ==
    IF j.t = "null" THEN Ok(None)
    ELSE LET r == Deserialize(T, j) IN IF r.ok THEN Ok(Some(r.v)) ELSE r

\* A decoder that reads null as a present, empty string.
OptionField_NullIsEmpty(T, obj, k) ==
    IF k \notin DOMAIN obj THEN Ok(None)
    ELSE IF obj[k].t = "null" THEN Ok(Some(""))
    ELSE DeOption(T, obj[k])

\* A plain Option<T> field of a derived struct: a missing key is None.
OptionField(T, obj, k) ==
    IF k \in DOMAIN obj THEN DeOption(T, obj[k]) ELSE Ok(None)

\* A flat Option in place of the nested one: null reads as "not mentioned".
optional_nullable_flat(T, j) ==
    IF j.t = "null" THEN Ok(None)
    ELSE LET r == Deserialize(T, j) IN IF r.ok THEN Ok(Some(Some(r.v))) ELSE r

\* fn optional_nullable: wraps a present field (even if null) in Some.
optional_nullable(T, j) ==
    LET r == DeOption(T, j) IN IF r.ok THEN Ok(Some(r.v)) ELSE r

\* #[serde(default, deserialize_with = "optional_nullable")]: a missing key
\* is the default, the outer None.
NullableField(T, obj, k) ==
    IF k \in DOMAIN obj THEN optional_nullable(T, obj[k]) ELSE Ok(None)

ScalarFields == {"title", "description", "status"}
NullableFields == {"assignee_id", "cti"}
PatchFields == ScalarFields \cup NullableFields

\* #[derive(Deserialize)] struct UpdateTaskRequest
UpdateTaskRequest(obj) ==
    LET f == [title |-> OptionField("String", obj, "title"),
              description |-> OptionField("String", obj, "description"),
              status |-> OptionField("String", obj, "status"),
              assignee_id |-> NullableField("String", obj, "assignee_id"),
              cti |-> NullableField("CtiSelection", obj, "cti")]
    IN  IF \A k \in PatchFields : f[k].ok
        THEN Ok([k \in PatchFields |-> f[k].v])
        ELSE Err(CHOOSE k \in PatchFields : ~f[k].ok)

\* A required field of a derived struct.
RequiredField(T, obj, k) ==
    IF k \in DOMAIN obj THEN Deserialize(T, obj[k]) ELSE Err("missing field")

\* #[derive(Deserialize)] struct CreateTaskRequest
CreateTaskRequest(obj) ==
    LET f == [title |-> RequiredField("String", obj, "title"),
              description |-> RequiredField("String", obj, "description"),
              assignee_id |-> OptionField("String", obj, "assignee_id"),
              cti |-> OptionField("CtiSelection", obj, "cti")]
    IN  IF \A k \in DOMAIN f : f[k].ok
        THEN Ok([k \in DOMAIN f |-> f[k].v])
        ELSE Err(CHOOSE k \in DOMAIN f : ~f[k].ok)

\* axum's Json extractor rejects a body that does not decode into the target
\* type before the handler body runs.
JsonRejection ==
    [status |-> 422,
     body |-> [error |-> "Failed to deserialize the JSON body into the target type"]]

(***************************************************************************)
(* models/task.rs: Task and its BSON document                              *)
(***************************************************************************)
TaskIdSeq == <<"t1">>

TaskNew(id, title, description, t) ==
    [id |-> id, title |-> title, description |-> description, status |-> "todo",
     notes |-> <<>>, assignee_id |-> None, cti |-> None,
     created_at |-> t, updated_at |-> t]

\* to_bson(&CtiSelection)
CtiToBson(c) ==
    JObj([category_id |-> JStr(c.category_id), type_id |-> JStr(c.type_id),
          item_id |-> JStr(c.item_id)])

\* Serialize for Task (insert_one): None is stored as null.
TaskToDoc(task) ==
    [id |-> JStr(task.id), title |-> JStr(task.title),
     description |-> JStr(task.description), status |-> JStr(task.status),
     notes |-> BArr(task.notes),
     assignee_id |-> IF IsSome(task.assignee_id) THEN JStr(task.assignee_id.v) ELSE JNull,
     cti |-> IF IsSome(task.cti) THEN CtiToBson(task.cti.v) ELSE JNull,
     created_at |-> BDate(task.created_at), updated_at |-> BDate(task.updated_at)]

\* Deserialize for Task (the document a find returns).
TaskFromDoc(doc) ==
    LET assignee == DeOption("String", doc.assignee_id)
        cti == DeOption("CtiSelection", doc.cti)
    IN  IF /\ doc.title.t = "str" /\ doc.description.t = "str" /\ doc.status.t = "str"
           /\ assignee.ok /\ cti.ok
        THEN Ok([id |-> doc.id.s, title |-> doc.title.s,
                 description |-> doc.description.s, status |-> doc.status.s,
                 notes |-> IF doc.notes.t = "null" THEN <<>> ELSE doc.notes.a,
                 assignee_id |-> assignee.v, cti |-> cti.v,
                 created_at |-> doc.created_at.n, updated_at |-> doc.updated_at.n])
        ELSE Err("Database")

(***************************************************************************)
(* handlers/tasks.rs: update_task                                          *)
(***************************************************************************)
\* A $set document that writes null for the nullable fields the payload
\* does not mention.
UpdateSetDoc_ClearsAbsent(payload, t) ==
    LET keys == {"updated_at"} \cup NullableFields
                    \cup {k \in ScalarFields : IsSome(payload[k])}
    IN  [k \in keys |->
            CASE k = "updated_at" -> BDate(t)
              [] k \in ScalarFields -> JStr(payload[k].v)
              [] k = "assignee_id" ->
                    IF IsNone(payload[k]) \/ IsNone(payload[k].v) THEN JNull
                    ELSE JStr(payload[k].v.v)
              [] k = "cti" ->
                    IF IsNone(payload[k]) \/ IsNone(payload[k].v) THEN JNull
                    ELSE CtiToBson(payload[k].v.v)]

\* A $set document that leaves out the fields the payload gives as null.
UpdateSetDoc_SkipsNull(payload, t) ==
    LET keys == {"updated_at"} \cup {k \in ScalarFields : IsSome(payload[k])}
                    \cup {k \in NullableFields :
                            IsSome(payload[k]) /\ IsSome(payload[k].v)}
    IN  [k \in keys |->
            CASE k = "updated_at" -> BDate(t)
              [] k \in ScalarFields -> JStr(payload[k].v)
              [] k = "assignee_id" -> JStr(payload[k].v.v)
              [] k = "cti" -> CtiToBson(payload[k].v.v)]

\* The $set document update_task builds from the decoded payload.
UpdateSetDoc(payload, t) ==
    LET keys == {"updated_at"} \cup {k \in PatchFields : IsSome(payload[k])}
    IN  [k \in keys |->
            CASE k = "updated_at" -> BDate(t)
              [] k \in ScalarFields -> JStr(payload[k].v)
              [] k = "assignee_id" ->
                    IF IsNone(payload[k].v) THEN JNull ELSE JStr(payload[k].v.v)
              [] k = "cti" ->
                    IF IsNone(payload[k].v) THEN JNull ELSE CtiToBson(payload[k].v.v)]

\* A replacement of the document: the title and the status the patch does
\* not mention fall back to those of a new task.
ApplySet_Replace(doc, set_doc) ==
    [k \in DOMAIN doc \cup DOMAIN set_doc |->
        IF k \in DOMAIN set_doc THEN set_doc[k]
        ELSE IF k = "title" THEN JStr("T1")
        ELSE IF k = "status" THEN JStr("todo")
        ELSE doc[k]]

\* An update that writes the status in a later step of its own.
ApplySet_Partial(doc, set_doc) ==
    [k \in DOMAIN doc \cup DOMAIN set_doc |->
        IF k \in DOMAIN set_doc \ {"status"} THEN set_doc[k] ELSE doc[k]]

\* MongoDB's $set: the named fields are replaced, the others kept.
ApplySet(doc, set_doc) ==
    [k \in DOMAIN doc \cup DOMAIN set_doc |->
        IF k \in DOMAIN set_doc THEN set_doc[k] ELSE doc[k]]

\* The request bodies clients send to PUT /api/tasks/:id.
CtiA == [category_id |-> "c1", type_id |-> "t1", item_id |-> "i1"]
CtiB == [category_id |-> "c2", type_id |-> "t2", item_id |-> "i2"]
\* A classification object that lacks item_id.
CtiPartial == JObj([category_id |-> JStr("c2"), type_id |-> JStr("t2")])

UpdateBodies ==
    {b \in {Object([title |-> a, description |-> d, status |-> s,
                    assignee_id |-> u, cti |-> c]) :
                a \in {Missing, JNull, JStr("T2")},
                d \in {Missing, JStr("D2")},
                s \in {Missing, JStr("done"), JStr("bogus")},
                u \in {Missing, JNull, JStr("u2"), JNum(7)},
                c \in {Missing, JNull, CtiToBson(CtiB), CtiPartial}} :
        Cardinality(DOMAIN b) <= MaxPatchKeys}

\* The request bodies clients send to POST /api/tasks: a bare task, and one
\* with an assignee and a classification.
CreateBodies ==
    {Object([title |-> JStr("T1"), description |-> JStr("D1"),
             assignee_id |-> Missing, cti |-> Missing]),
     Object([title |-> JStr("T1"), description |-> JStr("D1"),
             assignee_id |-> JStr("u1"), cti |-> CtiToBson(CtiA)])}

\* The ids a client can name: those generated so far, and one no task has.
TaskPaths == {TaskIdSeq[i] : i \in 1..nextTask} \cup {"t0"}

\* The bodies of two clients that patch the same task side by side: one
\* field each, the same field with two values, and two fields at once.
RaceBodies ==
    {Object([title |-> a, description |-> Missing, status |-> s,
             assignee_id |-> Missing, cti |-> Missing]) :
        <<a, s>> \in {<<JStr("T2"), Missing>>,
                      <<JStr("T3"), Missing>>,
                      <<Missing, JStr("done")>>,
                      <<JStr("T2"), JStr("done")>>}}

\* The bodies that leave out, null or replace each of the scalar fields.
ScalarBodies ==
    {Object([title |-> a, description |-> d, status |-> s,
             assignee_id |-> Missing, cti |-> Missing]) :
        a \in {Missing, JNull, JStr("T2")},
        d \in {Missing, JNull, JStr("D2")},
        s \in {Missing, JNull, JStr("done")}}

\* The handler up to its store round trip: the extractors, then the $set
\* document with the clock read for updated_at.
UpdateTaskBeginOf(r, bodies) ==
    /\ \E q \in Incoming(r, {"update_task"}), id \in TaskPaths, body \in bodies :
          /\ NextStage(q) = "handler"
          /\ LET q1 == [q EXCEPT !.path = id, !.body = body]
                 payload == UpdateTaskRequest(body)
             IN  req' = [req EXCEPT ![r] =
                    IF ~payload.ok THEN Respond(q1, JsonRejection)
                    ELSE [Entered(q1, "handler") EXCEPT
                            !.pc = "built", !.patch = payload.v,
                            !.set_doc = UpdateSetDoc(payload.v, now)]]
    /\ UNCHANGED <<now, users, nextUser, tokens, tasks, nextTask, nextNote>>

UpdateTaskBegin(r) == UpdateTaskBeginOf(r, UpdateBodies)

\* An update with upsert: a patch of an id no task has stores a new task.
UpdateTaskStore_Upsert(r) ==
    /\ req[r].pc = "built" /\ req[r].route = "update_task"
    /\ LET id == req[r].path
           before == IF id \in DOMAIN tasks THEN tasks[id]
                     ELSE TaskToDoc(TaskNew(id, "", "", now))
           after == ApplySet(before, req[r].set_doc)
           task == TaskFromDoc(after)
       IN  /\ tasks' = [k \in DOMAIN tasks \cup {id} |->
                           IF k = id THEN after ELSE tasks[k]]
           /\ req' = [req EXCEPT ![r] =
                 IF task.ok
                 THEN Respond(@, [status |-> 200, body |-> task.v])
                 ELSE Respond(@, IntoResponse([kind |-> "Database", msg |-> ""]))]
    /\ UNCHANGED <<now, users, nextUser, tokens, nextTask, nextNote>>

\* find_one_and_update({_id: id}, {$set: set_doc}, ReturnDocument::After)
UpdateTaskStore(r) ==
    /\ req[r].pc = "built" /\ req[r].route = "update_task"
    /\ LET id == req[r].path
       IN  IF id \in DOMAIN tasks
           THEN LET after == ApplySet(tasks[id], req[r].set_doc)
                    task == TaskFromDoc(after)
                IN  /\ tasks' = [tasks EXCEPT ![id] = after]
                    /\ req' = [req EXCEPT ![r] =
                          IF task.ok
                          THEN Respond(@, [status |-> 200, body |-> task.v])
                          ELSE Respond(@, IntoResponse([kind |-> "Database", msg |-> ""]))]
           ELSE /\ tasks' = tasks
                /\ req' = [req EXCEPT ![r] = Respond(@, IntoResponse(NotFound))]
    /\ UNCHANGED <<now, users, nextUser, tokens, nextTask, nextNote>>

(***************************************************************************)
(* handlers/tasks.rs: create_task                                          *)
(***************************************************************************)
CreateTask(r) ==
    /\ nextTask < Len(TaskIdSeq)
    /\ \E q \in Incoming(r, {"create_task"}), body \in CreateBodies :
          /\ NextStage(q) = "handler"
          /\ LET q1 == [q EXCEPT !.body = body]
                 payload == CreateTaskRequest(body)
                 id == TaskIdSeq[nextTask + 1]
             IN  IF ~payload.ok
                 THEN /\ req' = [req EXCEPT ![r] = Respond(q1, JsonRejection)]
                      /\ UNCHANGED <<tasks, nextTask>>
                 ELSE LET task == [TaskNew(id, payload.v.title, payload.v.description, now)
                                     EXCEPT !.assignee_id = payload.v.assignee_id,
                                            !.cti = payload.v.cti]
                      IN  /\ tasks' = [k \in DOMAIN tasks \cup {id} |->
                                          IF k = id THEN TaskToDoc(task) ELSE tasks[k]]
                          /\ nextTask' = nextTask + 1
                          /\ req' = [req EXCEPT ![r] =
                                Respond(Entered(q1, "handler"),
                                        [status |-> 201, body |-> task])]
    /\ UNCHANGED <<now, users, nextUser, tokens, nextNote>>

(***************************************************************************)
(* handlers/tasks.rs: add_note, delete_task                                *)
(***************************************************************************)
NoteIdSeq == <<"k1">>

\* TaskNote::new
TaskNoteNew(id, note, author, t) ==
    [id |-> id, note |-> note, author |-> author, created_at |-> t]

\* #[derive(Deserialize)] struct AddNoteRequest
AddNoteRequest(obj) ==
    LET note == RequiredField("String", obj, "note")
    IN  IF note.ok THEN Ok([note |-> note.v]) ELSE note

NoteBodies == {Object([note |-> n]) : n \in {JStr("N1"), Missing}}

\* The handler up to its store round trip: the extractors, the note with its
\* fresh id and the clock read, and the update document with the clock read
\* for updated_at.
AddNoteBeginOf(r, ids) ==
    /\ nextNote < Len(ids)
    /\ \E q \in Incoming(r, {"add_note"}), id \in TaskPaths, body \in NoteBodies :
          /\ NextStage(q) = "handler"
          /\ LET q1 == [q EXCEPT !.path = id, !.body = body]
                 payload == AddNoteRequest(body)
             IN  IF ~payload.ok
                 THEN /\ req' = [req EXCEPT ![r] = Respond(q1, JsonRejection)]
                      /\ nextNote' = nextNote
                 ELSE /\ req' = [req EXCEPT ![r] =
                            [Entered(q1, "handler") EXCEPT
                                !.pc = "built",
                                !.patch = TaskNoteNew(ids[nextNote + 1],
                                                      payload.v.note, q.claims.v.sub, now),
                                !.set_doc = [updated_at |-> BDate(now)]]]
                      /\ nextNote' = nextNote + 1
    /\ UNCHANGED <<now, users, nextUser, tokens, tasks, nextTask>>

AddNoteBegin(r) == AddNoteBeginOf(r, NoteIdSeq)

\* An update that stores the notes array it built from the request alone.
AddNoteStore_SetsNotes(r) ==
    /\ req[r].pc = "built" /\ req[r].route = "add_note"
    /\ LET id == req[r].path
       IN  IF id \notin DOMAIN tasks
           THEN /\ tasks' = tasks
                /\ req' = [req EXCEPT ![r] = Respond(@, IntoResponse(NotFound))]
           ELSE LET after == [ApplySet(tasks[id], req[r].set_doc) EXCEPT
                                 !.notes = BArr(<<req[r].patch>>)]
                IN  /\ tasks' = [tasks EXCEPT ![id] = after]
                    /\ req' = [req EXCEPT ![r] =
                          Respond(@, [status |-> 200, body |-> TaskFromDoc(after).v])]
    /\ UNCHANGED <<now, users, nextUser, tokens, nextTask, nextNote>>

\* find_one_and_update({_id: id}, {$push: {notes: note}, $set: {updated_at}},
\* ReturnDocument::After)
AddNoteStore(r) ==
    /\ req[r].pc = "built" /\ req[r].route = "add_note"
    /\ LET id == req[r].path
       IN  IF id \notin DOMAIN tasks
           THEN /\ tasks' = tasks
                /\ req' = [req EXCEPT ![r] = Respond(@, IntoResponse(NotFound))]
           ELSE IF tasks[id].notes.t # "arr"
           THEN /\ tasks' = tasks
                /\ req' = [req EXCEPT ![r] =
                       Respond(@, IntoResponse([kind |-> "Database", msg |-> ""]))]
           ELSE LET after == [ApplySet(tasks[id], req[r].set_doc) EXCEPT
                                 !.notes = BArr(Append(@.a, req[r].patch))]
                    task == TaskFromDoc(after)
                IN  /\ tasks' = [tasks EXCEPT ![id] = after]
                    /\ req' = [req EXCEPT ![r] =
                          IF task.ok
                          THEN Respond(@, [status |-> 200, body |-> task.v])
                          ELSE Respond(@, IntoResponse([kind |-> "Database", msg |-> ""]))]
    /\ UNCHANGED <<now, users, nextUser, tokens, nextTask, nextNote>>

(***************************************************************************)
(* handlers/tasks.rs: delete_note                                          *)
(***************************************************************************)
\* The note ids two clients' add_note requests are given.
RaceNoteIds == <<"k1", "k2">>

\* The note ids a client can name: those generated so far, and one no note
\* has.
NotePaths == {RaceNoteIds[i] : i \in 1..nextNote} \cup {"k0"}

\* $pull: {notes: {_id: note_id}}: the elements with that id are removed, the
\* others keep their order.
Pull(notes, note_id) == SelectSeq(notes, LAMBDA n : n.id # note_id)

\* The handler up to its store round trip: the extractors and the update
\* document with the clock read for updated_at.
DeleteNoteBegin(r) ==
    /\ \E q \in Incoming(r, {"delete_note"}), id \in TaskPaths, note_id \in NotePaths :
          /\ NextStage(q) = "handler"
          /\ req' = [req EXCEPT ![r] =
                [Entered(q, "handler") EXCEPT
                    !.pc = "built", !.path = id, !.body = note_id,
                    !.set_doc = [updated_at |-> BDate(now)]]]
    /\ UNCHANGED <<now, users, nextUser, tokens, tasks, nextTask, nextNote>>

\* A removal that leaves updated_at alone when no note has the id.
DeleteNoteStore_StampsOnRemoval(r) ==
    /\ req[r].pc = "built" /\ req[r].route = "delete_note"
    /\ LET id == req[r].path
       IN  IF id \notin DOMAIN tasks
           THEN /\ tasks' = tasks
                /\ req' = [req EXCEPT ![r] = Respond(@, IntoResponse(NotFound))]
           ELSE LET kept == Pull(tasks[id].notes.a, req[r].body)
                    after == IF kept = tasks[id].notes.a THEN tasks[id]
                             ELSE [ApplySet(tasks[id], req[r].set_doc) EXCEPT
                                      !.notes = BArr(kept)]
                IN  /\ tasks' = [tasks EXCEPT ![id] = after]
                    /\ req' = [req EXCEPT ![r] =
                          Respond(@, [status |-> 200, body |-> TaskFromDoc(after).v])]
    /\ UNCHANGED <<now, users, nextUser, tokens, nextTask, nextNote>>

\* find_one_and_update({_id: task_id}, {$pull: {notes: {_id: note_id}},
\* $set: {updated_at}}, ReturnDocument::After)
DeleteNoteStore(r) ==
    /\ req[r].pc = "built" /\ req[r].route = "delete_note"
    /\ LET id == req[r].path
       IN  IF id \notin DOMAIN tasks
           THEN /\ tasks' = tasks
                /\ req' = [req EXCEPT ![r] = Respond(@, IntoResponse(NotFound))]
           ELSE IF tasks[id].notes.t # "arr"
           THEN /\ tasks' = tasks
                /\ req' = [req EXCEPT ![r] =
                       Respond(@, IntoResponse([kind |-> "Database", msg |-> ""]))]
           ELSE LET after == [ApplySet(tasks[id], req[r].set_doc) EXCEPT
                                 !.notes = BArr(Pull(@.a, req[r].body))]
                    task == TaskFromDoc(after)
                IN  /\ tasks' = [tasks EXCEPT ![id] = after]
                    /\ req' = [req EXCEPT ![r] =
                          IF task.ok
                          THEN Respond(@, [status |-> 200, body |-> task.v])
                          ELSE Respond(@, IntoResponse([kind |-> "Database", msg |-> ""]))]
    /\ UNCHANGED <<now, users, nextUser, tokens, nextTask, nextNote>>

\* delete_one({_id: id}); deleted_count == 0 is NotFound.
DeleteTask(r) ==
    /\ \E q \in Incoming(r, {"delete_task"}), id \in TaskPaths :
          /\ NextStage(q) = "handler"
          /\ LET q1 == [Entered(q, "handler") EXCEPT !.path = id]
             IN  IF id \in DOMAIN tasks
                 THEN /\ tasks' = [k \in DOMAIN tasks \ {id} |-> tasks[k]]
                      /\ req' = [req EXCEPT ![r] =
                            Respond(q1, [status |-> 204, body |-> None])]
                 ELSE /\ tasks' = tasks
                      /\ req' = [req EXCEPT ![r] = Respond(q1, IntoResponse(NotFound))]
    /\ UNCHANGED <<now, users, nextUser, tokens, nextTask, nextNote>>

(***************************************************************************)
(* models/task.rs: TaskQuery; handlers/tasks.rs: list_tasks                *)
(***************************************************************************)
default_page == 1
default_limit == 25
MaxLimit == 100

VALID == {"todo", "in_progress", "done"}

\* #[derive(Deserialize)] struct TaskQuery, with its serde defaults. The
\* text of the status parameter is a sequence of pieces: "," is a comma,
\* " " a run of whitespace, and any other piece a run of other characters.
TaskQuery(page, limit, status) ==
    [page |-> IF IsSome(page) THEN page.v ELSE default_page,
     limit |-> IF IsSome(limit) THEN limit.v ELSE default_limit,
     status |-> status]

\* format!("invalid status '{}': must be one of todo, in_progress, done", status)
InvalidStatus(entry) ==
    [format |-> "invalid status '{}': must be one of todo, in_progress, done",
     status |-> entry]

\* str::split(','): the pieces between the commas.
RECURSIVE Split(_)
Split(s) ==
    LET commas == {i \in 1..Len(s) : s[i] = ","}
    IN  IF commas = {} THEN <<s>>
        ELSE LET i == CHOOSE i \in commas : \A j \in commas : i <= j
             IN  <<SubSeq(s, 1, i - 1)>> \o Split(SubSeq(s, i + 1, Len(s)))

RECURSIVE TrimStart(_)
TrimStart(s) ==
    IF s # <<>> /\ s[1] = " " THEN TrimStart(Tail(s)) ELSE s

RECURSIVE TrimEnd(_)
TrimEnd(s) ==
    IF s # <<>> /\ s[Len(s)] = " " THEN TrimEnd(SubSeq(s, 1, Len(s) - 1)) ELSE s

\* A trim of the leading whitespace alone.
Trim_StartOnly(s) == TrimStart(s)

\* str::trim
Trim(s) == TrimEnd(TrimStart(s))

\* VALID.contains(&status.as_str()): the entry is one of the three words.
IsValidStatus(entry) == Len(entry) = 1 /\ entry[1] \in VALID

\* TaskQuery::parsed_statuses
parsed_statuses(params) ==
    IF IsNone(params.status) THEN Ok(None)
    ELSE IF Trim(params.status.v) = <<>> THEN Ok(None)
    ELSE LET parts == Split(params.status.v)
             statuses == SelectSeq([i \in 1..Len(parts) |-> Trim(parts[i])],
                                   LAMBDA v : v # <<>>)
             bad == {i \in 1..Len(statuses) : ~IsValidStatus(statuses[i])}
         IN  IF bad # {}
             THEN Err(InvalidStatus(statuses[CHOOSE i \in bad : \A j \in bad : i <= j]))
             ELSE IF statuses = <<>> THEN Ok(None)
             ELSE Ok(Some([i \in 1..Len(statuses) |-> statuses[i][1]]))

\* Checks that put no upper bound on limit.
list_tasks_validate_NoMax(params) ==
    IF params.limit = 0
    THEN Err(BadRequest("limit must be between 1 and 100"))
    ELSE IF params.page = 0 THEN Err(BadRequest("page must be >= 1"))
    ELSE LET statuses == parsed_statuses(params)
         IN  IF statuses.ok THEN statuses ELSE Err(BadRequest(statuses.v))

\* The checks list_tasks makes before it touches the store.
list_tasks_validate(params) ==
    IF params.limit = 0 \/ params.limit > MaxLimit
    THEN Err(BadRequest("limit must be between 1 and 100"))
    ELSE IF params.page = 0 THEN Err(BadRequest("page must be >= 1"))
    ELSE LET statuses == parsed_statuses(params)
         IN  IF statuses.ok THEN statuses ELSE Err(BadRequest(statuses.v))

\* The ids of the tasks a filter selects.
Selected(coll, statuses) ==
    {id \in DOMAIN coll :
        IsNone(statuses) \/
        \E i \in 1..Len(statuses.v) : coll[id].status = JStr(statuses.v[i])}

\* The selected ids in the order of sort {created_at: -1}.
Sorted(coll, ids) ==
    CHOOSE seq \in [1..Cardinality(ids) -> ids] :
        /\ \A i, j \in 1..Cardinality(ids) : i # j => seq[i] # seq[j]
        /\ \A i, j \in 1..Cardinality(ids) :
              i < j => coll[seq[i]].created_at.n >= coll[seq[j]].created_at.n

\* The query strings clients send to GET /api/tasks: each parameter absent
\* or present.
ListQueries ==
    [page : {None, Some(0), Some(2)},
     limit : {None, Some(0), Some(1), Some(MaxLimit), Some(MaxLimit + 1)},
     status : {None, Some(<<"done", ",">>), Some(<<"todo", ",", "bogus">>)}]

\* The pieces the text of a status parameter is made of.
StatusPieces == {"todo", "done", "bogus", "nope", " ", ","}

RECURSIVE Texts(_)
Texts(n) ==
    IF n = 0 THEN {<<>>}
    ELSE Texts(n - 1) \cup
         {Append(s, c) : s \in {t \in Texts(n - 1) : Len(t) = n - 1}, c \in StatusPieces}

\* The query strings with a status parameter of up to MaxStatusLen pieces.
StatusQueries ==
    [page : {None}, limit : {None},
     status : {None} \cup {Some(s) : s \in Texts(MaxStatusLen)}]

\* The handler up to its second store round trip: the checks of the query,
\* then count_documents(filter).
ListTasksCountOf(r, queries) ==
    /\ \E q \in Incoming(r, {"list_tasks"}), query \in queries :
          /\ NextStage(q) = "handler"
          /\ LET params == TaskQuery(query.page, query.limit, query.status)
                 q1 == [Entered(q, "handler") EXCEPT !.path = query, !.body = params]
                 statuses == list_tasks_validate(params)
             IN  req' = [req EXCEPT ![r] =
                    IF ~statuses.ok THEN Respond(q1, IntoResponse(statuses.v))
                    ELSE [q1 EXCEPT !.pc = "counted",
                                    !.set_doc = statuses.v,
                                    !.patch = Cardinality(Selected(tasks, statuses.v))]]
    /\ UNCHANGED <<now, users, nextUser, tokens, tasks, nextTask, nextNote>>

ListTasksCount(r) == ListTasksCountOf(r, ListQueries)

\* find(filter, skip, limit, sort), the cursor read to its end, and the
\* response envelope.
ListTasksFind(r) ==
    /\ req[r].pc = "counted" /\ req[r].route = "list_tasks"
    /\ LET params == req[r].body
           total == req[r].patch
           ids == Sorted(tasks, Selected(tasks, req[r].set_doc))
           skip == (params.page - 1) * params.limit
           page == SubSeq(ids, skip + 1,
                          IF skip + params.limit < Len(ids)
                          THEN skip + params.limit ELSE Len(ids))
           found == [i \in 1..Len(page) |-> TaskFromDoc(tasks[page[i]])]
           total_pages == IF total = 0 THEN 1
                          ELSE (total + params.limit - 1) \div params.limit
       IN  req' = [req EXCEPT ![r] =
              IF \E i \in 1..Len(found) : ~found[i].ok
              THEN Respond(@, IntoResponse([kind |-> "Database", msg |-> ""]))
              ELSE Respond(@, [status |-> 200,
                               body |-> [tasks |-> [i \in 1..Len(found) |-> found[i].v],
                                         total |-> total, page |-> params.page,
                                         limit |-> params.limit,
                                         total_pages |-> total_pages]])]
    /\ UNCHANGED <<now, users, nextUser, tokens, tasks, nextTask, nextNote>>

(***************************************************************************)
(* models/user.rs and the credential verifier (argon2)                     *)
(***************************************************************************)
UserIdSeq == <<"u1", "u2">>
UserIds == {UserIdSeq[i] : i \in 1..Len(UserIdSeq)}
Emails == {"e1", "e2"}
Usernames == {"n1", "n2"}
Passwords == {"p1", "p2"}
Salts == {"s1"}

\* Argon2's digest: equal only for equal password and salt.
Argon2(password, salt) == <<password, salt>>

\* argon2.hash_password(password, &salt).to_string(): the PHC string carries
\* the salt and the digest.
hash_password(password, salt) ==
    [wf |-> TRUE, salt |-> salt, digest |-> Argon2(password, salt)]

\* PasswordHash::new(&hash) and then verify_password.
verify_password(password, hash) ==
    hash.wf /\ hash.digest = Argon2(password, hash.salt)

UserNew(id, email, username, password_hash, t) ==
    [id |-> id, email |-> email, username |-> username,
     password_hash |-> password_hash, role |-> "user",
     created_at |-> t, updated_at |-> t]

\* A public record that carries the whole account but updated_at.
UserPublic_WithHash(u) ==
    [id |-> u.id, email |-> u.email, username |-> u.username, role |-> u.role,
     created_at |-> u.created_at, password_hash |-> u.password_hash]

\* impl From<User> for UserPublic
UserPublic(u) ==
    [id |-> u.id, email |-> u.email, username |-> u.username, role |-> u.role,
     created_at |-> u.created_at]

\* The account the operator seeds the database with: the API never creates an
\* admin out of nothing.
SeedAdmin ==
    [UserNew("u1", "e1", "n1", hash_password("p1", "s1"), 0) EXCEPT !.role = "admin"]

\* A unique index on email alone.
DuplicateKey_EmailOnly(coll, id, doc) ==
    \E other \in DOMAIN coll \ {id} : coll[other].email = doc.email

\* The unique indexes main.rs creates on email and username: whether writing
\* `doc` under `id` would repeat another document's email or username.
DuplicateKey(coll, id, doc) ==
    \E other \in DOMAIN coll \ {id} :
        \/ coll[other].email = doc.email
        \/ coll[other].username = doc.username

Insert(coll, id, doc) ==
    [k \in DOMAIN coll \cup {id} |-> IF k = id THEN doc ELSE coll[k]]

Remove(coll, id) == [k \in DOMAIN coll \ {id} |-> coll[k]]

(***************************************************************************)
(* handlers/auth.rs: register, login, me                                   *)
(***************************************************************************)
AuthResponse(token, user) == [token |-> token, user |-> UserPublic(user)]

\* The result of a handler: the collection after it and its response.
Done(coll, resp) == [coll |-> coll, resp |-> resp]

\* A register that does not recognize the duplicate-key write error.
register_DuplicateIsDatabase(id, payload, salt, coll, t) ==
    LET user == UserNew(id, payload.email, payload.username,
                        hash_password(payload.password, salt), t)
    IN  IF DuplicateKey(coll, id, user)
        THEN Done(coll, IntoResponse([kind |-> "Database", msg |-> ""]))
        ELSE Done(Insert(coll, id, user),
                  [status |-> 200,
                   body |-> AuthResponse(mint_token(id, user, JwtSecret, t), user)])

register(id, payload, salt, coll, t) ==
    LET user == UserNew(id, payload.email, payload.username,
                        hash_password(payload.password, salt), t)
    IN  IF DuplicateKey(coll, id, user)
        THEN Done(coll, IntoResponse(Conflict("Email or username already taken")))
        ELSE Done(Insert(coll, id, user),
                  [status |-> 200,
                   body |-> AuthResponse(mint_token(id, user, JwtSecret, t), user)])

\* A login that tells the caller when no account has the email.
login_UnknownIsNotFound(payload, coll, t) ==
    LET found == {id \in DOMAIN coll : coll[id].email = payload.email}
    IN  IF found = {} THEN Done(coll, IntoResponse(NotFound))
        ELSE LET id == CHOOSE id \in found : TRUE
                 user == coll[id]
             IN  IF ~verify_password(payload.password, user.password_hash)
                 THEN Done(coll, IntoResponse(Unauthorized))
                 ELSE Done(coll,
                           [status |-> 200,
                            body |-> AuthResponse(mint_token(id, user, JwtSecret, t), user)])

login(payload, coll, t) ==
    LET found == {id \in DOMAIN coll : coll[id].email = payload.email}
    IN  IF found = {} THEN Done(coll, IntoResponse(Unauthorized))
        ELSE LET id == CHOOSE id \in found : TRUE
                 user == coll[id]
             IN  IF ~verify_password(payload.password, user.password_hash)
                 THEN Done(coll, IntoResponse(Unauthorized))
                 ELSE Done(coll,
                           [status |-> 200,
                            body |-> AuthResponse(mint_token(id, user, JwtSecret, t), user)])

me(claims, coll) ==
    IF claims.sub \in DOMAIN coll
    THEN Done(coll, [status |-> 200, body |-> UserPublic(coll[claims.sub])])
    ELSE Done(coll, IntoResponse(NotFound))

\* The token a response carries joins the tokens clients hold.
Minted(resp) == IF resp.status = 200 THEN {resp.body.token} ELSE {}

Register(r) ==
    /\ nextUser < Len(UserIdSeq)
    /\ \E q \in Incoming(r, {"register"}), email \in Emails, username \in Usernames,
          password \in {"p2"}, salt \in Salts :
          /\ NextStage(q) = "handler"
          /\ LET payload == [email |-> email, username |-> username,
                             password |-> password]
                 res == register(UserIdSeq[nextUser + 1], payload, salt, users, now)
             IN  /\ Cardinality(tokens \cup Minted(res.resp)) <= MaxTokens
                 /\ users' = res.coll
                 /\ nextUser' = IF res.resp.status = 200 THEN nextUser + 1 ELSE nextUser
                 /\ tokens' = tokens \cup Minted(res.resp)
                 /\ req' = [req EXCEPT ![r] =
                       Respond([Entered(q, "handler") EXCEPT !.body = payload], res.resp)]
    /\ UNCHANGED <<now, tasks, nextTask, nextNote>>

Login(r) ==
    /\ \E q \in Incoming(r, {"login"}), email \in Emails, password \in Passwords :
          /\ NextStage(q) = "handler"
          /\ LET payload == [email |-> email, password |-> password]
                 res == login(payload, users, now)
             IN  /\ Cardinality(tokens \cup Minted(res.resp)) <= MaxTokens
                 /\ tokens' = tokens \cup Minted(res.resp)
                 /\ req' = [req EXCEPT ![r] =
                       Respond([Entered(q, "handler") EXCEPT !.body = payload], res.resp)]
    /\ UNCHANGED <<now, users, nextUser, tasks, nextTask, nextNote>>

Me(r) ==
    /\ \E q \in Incoming(r, {"me"}) :
          /\ NextStage(q) = "handler"
          /\ req' = [req EXCEPT ![r] =
                Respond(Entered(q, "handler"), me(q.claims.v, users).resp)]
    /\ UNCHANGED <<now, users, nextUser, tokens, tasks, nextTask, nextNote>>

(***************************************************************************)
(* handlers/users.rs                                                       *)
(***************************************************************************)
\* The ids of the stored accounts, in the order a find(None) cursor yields
\* them.
StoredIds(coll) == SelectSeq(UserIdSeq, LAMBDA id : id \in DOMAIN coll)

list_users(coll) ==
    LET ids == StoredIds(coll)
    IN  Done(coll, [status |-> 200,
                    body |-> [i \in 1..Len(ids) |-> UserPublic(coll[ids[i]])]])

ListUsers(r) ==
    /\ \E q \in Incoming(r, {"list_users"}) :
          /\ NextStage(q) = "handler"
          /\ req' = [req EXCEPT ![r] =
                Respond(Entered(q, "handler"), list_users(users).resp)]
    /\ UNCHANGED <<now, users, nextUser, tokens, tasks, nextTask, nextNote>>

(***************************************************************************)
(* handlers/admin.rs                                                       *)
(***************************************************************************)
admin_list_users(coll) ==
    LET ids == StoredIds(coll)
    IN  Done(coll, [status |-> 200,
                    body |-> [i \in 1..Len(ids) |-> UserPublic(coll[ids[i]])]])

AdminListUsers(r) ==
    /\ \E q \in Incoming(r, {"admin_list_users"}) :
          /\ NextStage(q) = "handler"
          /\ req' = [req EXCEPT ![r] =
                Respond(Entered(q, "handler"), admin_list_users(users).resp)]
    /\ UNCHANGED <<now, users, nextUser, tokens, tasks, nextTask, nextNote>>

\* A guard that compares the wrong claim with the path id.
IsSelf_ByEmail(claims, id) == claims.email = id

\* The self-protection guard: claims.sub == id
IsSelf(claims, id) == claims.sub = id

ValidRole(role) == role = "user" \/ role = "admin"

admin_update_user(claims, id, payload, coll, t) ==
    IF id \notin DOMAIN coll THEN Done(coll, IntoResponse(NotFound))
    ELSE LET after == [coll[id] EXCEPT
                          !.updated_at = t,
                          !.email = IF IsSome(payload.email) THEN payload.email.v ELSE @,
                          !.username = IF IsSome(payload.username)
                                       THEN payload.username.v ELSE @]
         IN  IF DuplicateKey(coll, id, after)
             THEN Done(coll, IntoResponse(Conflict("Email or username already taken")))
             ELSE Done([coll EXCEPT ![id] = after],
                       [status |-> 200, body |-> UserPublic(after)])

\* A role change that validates the role after it wrote it.
admin_update_role_WritesFirst(claims, id, payload, coll, t) ==
    IF IsSelf(claims, id)
    THEN Done(coll, IntoResponse(BadRequest("Cannot change your own role")))
    ELSE IF id \notin DOMAIN coll THEN Done(coll, IntoResponse(NotFound))
    ELSE LET after == [coll[id] EXCEPT !.role = payload.role, !.updated_at = t]
         IN  IF ~ValidRole(payload.role)
             THEN Done([coll EXCEPT ![id] = after],
                       IntoResponse(BadRequest("Role must be 'user' or 'admin'")))
             ELSE Done([coll EXCEPT ![id] = after],
                       [status |-> 200, body |-> UserPublic(after)])

\* A role change that stores whatever role the body names.
admin_update_role_AnyRole(claims, id, payload, coll, t) ==
    IF IsSelf(claims, id)
    THEN Done(coll, IntoResponse(BadRequest("Cannot change your own role")))
    ELSE IF id \notin DOMAIN coll THEN Done(coll, IntoResponse(NotFound))
    ELSE LET after == [coll[id] EXCEPT !.role = payload.role, !.updated_at = t]
         IN  Done([coll EXCEPT ![id] = after],
                  [status |-> 200, body |-> UserPublic(after)])

admin_update_role(claims, id, payload, coll, t) ==
    IF IsSelf(claims, id)
    THEN Done(coll, IntoResponse(BadRequest("Cannot change your own role")))
    ELSE IF ~ValidRole(payload.role)
    THEN Done(coll, IntoResponse(BadRequest("Role must be 'user' or 'admin'")))
    ELSE IF id \notin DOMAIN coll THEN Done(coll, IntoResponse(NotFound))
    ELSE LET after == [coll[id] EXCEPT !.role = payload.role, !.updated_at = t]
         IN  Done([coll EXCEPT ![id] = after],
                  [status |-> 200, body |-> UserPublic(after)])

\* Self-deletion answered as a permissions problem.
admin_delete_user_Forbidden(claims, id, coll) ==
    IF IsSelf(claims, id) THEN Done(coll, IntoResponse(Forbidden))
    ELSE IF id \notin DOMAIN coll THEN Done(coll, IntoResponse(NotFound))
    ELSE Done(Remove(coll, id), [status |-> 204, body |-> None])

admin_delete_user(claims, id, coll) ==
    IF IsSelf(claims, id)
    THEN Done(coll, IntoResponse(BadRequest("Cannot delete your own account")))
    ELSE IF id \notin DOMAIN coll THEN Done(coll, IntoResponse(NotFound))
    ELSE Done(Remove(coll, id), [status |-> 204, body |-> None])

RoleInputs == {"user", "admin", "root"}

AdminUpdateUser(r) ==
    /\ \E q \in Incoming(r, {"admin_update_user"}), id \in UserIds,
          email \in {None, Some("e1")}, username \in {None, Some("n2")} :
          /\ NextStage(q) = "handler"
          /\ LET payload == [email |-> email, username |-> username]
                 res == admin_update_user(q.claims.v, id, payload, users, now)
             IN  /\ users' = res.coll
                 /\ req' = [req EXCEPT ![r] =
                       Respond([Entered(q, "handler") EXCEPT
                                   !.path = id, !.body = payload], res.resp)]
    /\ UNCHANGED <<now, nextUser, tokens, tasks, nextTask, nextNote>>

AdminUpdateRole(r) ==
    /\ \E q \in Incoming(r, {"admin_update_role"}), id \in UserIds, role \in RoleInputs :
          /\ NextStage(q) = "handler"
          /\ LET payload == [role |-> role]
                 res == admin_update_role(q.claims.v, id, payload, users, now)
             IN  /\ users' = res.coll
                 /\ req' = [req EXCEPT ![r] =
                       Respond([Entered(q, "handler") EXCEPT
                                   !.path = id, !.body = payload], res.resp)]
    /\ UNCHANGED <<now, nextUser, tokens, tasks, nextTask, nextNote>>

AdminDeleteUser(r) ==
    /\ \E q \in Incoming(r, {"admin_delete_user"}), id \in UserIds :
          /\ NextStage(q) = "handler"
          /\ LET res == admin_delete_user(q.claims.v, id, users)
             IN  /\ users' = res.coll
                 /\ req' = [req EXCEPT ![r] =
                       Respond([Entered(q, "handler") EXCEPT !.path = id], res.resp)]
    /\ UNCHANGED <<now, nextUser, tokens, tasks, nextTask, nextNote>>

(***************************************************************************)
(* handlers/tasks.rs: get_task; handlers/dashboard.rs; handlers/cti.rs;    *)
(* the health route                                                        *)
(***************************************************************************)
\* find_one({_id: id}); None is NotFound.
GetTask(r) ==
    /\ \E q \in Incoming(r, {"get_task"}), id \in TaskPaths :
          /\ NextStage(q) = "handler"
          /\ LET q1 == [Entered(q, "handler") EXCEPT !.path = id]
                 task == IF id \in DOMAIN tasks THEN TaskFromDoc(tasks[id])
                         ELSE Err("absent")
             IN  req' = [req EXCEPT ![r] =
                    IF id \notin DOMAIN tasks THEN Respond(q1, IntoResponse(NotFound))
                    ELSE IF ~task.ok THEN Respond(q1, IntoResponse(Database("")))
                    ELSE Respond(q1, [status |-> 200, body |-> task.v])]
    /\ UNCHANGED <<now, users, nextUser, tokens, tasks, nextTask, nextNote>>

\* count_documents on users, and the greeting built from the Claims.
GetDashboard(r) ==
    /\ \E q \in Incoming(r, {"get_dashboard"}) :
          /\ NextStage(q) = "handler"
          /\ req' = [req EXCEPT ![r] =
                Respond(Entered(q, "handler"),
                        [status |-> 200,
                         body |-> [message |-> <<"Welcome, ", q.claims.v.email, "!">>,
                                   user_id |-> q.claims.v.sub,
                                   stats |-> [total_users |->
                                                 Cardinality(DOMAIN users)]]])]
    /\ UNCHANGED <<now, users, nextUser, tokens, tasks, nextTask, nextNote>>

\* The handlers of the classification entities, whose collections are not
\* part of this state: a list answers 200, a create 201, and a delete 204
\* or 404 Not Found as the store finds the id or not.
CtiHandler(r) ==
    /\ \E q \in Incoming(r, CtiRoutes), found \in BOOLEAN :
          /\ NextStage(q) = "handler"
          /\ LET q1 == Entered(q, "handler")
             IN  req' = [req EXCEPT ![r] =
                    CASE q.route \in {"list_categories", "list_types", "list_items"} ->
                            Respond(q1, [status |-> 200, body |-> None])
                      [] q.route \in {"create_category", "create_type", "create_item"} ->
                            Respond(q1, [status |-> 201, body |-> None])
                      [] OTHER ->
                            IF found THEN Respond(q1, [status |-> 204, body |-> None])
                            ELSE Respond(q1, IntoResponse(NotFound))]
    /\ UNCHANGED <<now, users, nextUser, tokens, tasks, nextTask, nextNote>>

\* GET /health: the handler runs and answers 200.
HealthCheck(r) ==
    /\ \E q \in Incoming(r, {"health_check"}) :
          /\ NextStage(q) = "handler"
          /\ req' = [req EXCEPT ![r] =
                Respond(Entered(q, "handler"), [status |-> 200, body |-> None])]
    /\ UNCHANGED <<now, users, nextUser, tokens, tasks, nextTask, nextNote>>

(***************************************************************************)
(* A store round trip that fails                                           *)
(***************************************************************************)
\* The routes whose handler starts with its store call.
StoreRoutes == {"login", "me", "list_users", "admin_list_users"}

\* The store call of the handler fails (`.await?`, map_err(AppError::Database)):
\* the handler returns AppError::Database with the driver's error.
StoreFails(r) ==
    /\ \E q \in Incoming(r, StoreRoutes), e \in Failures :
          /\ NextStage(q) = "handler"
          /\ req' = [req EXCEPT ![r] =
                Respond([Entered(q, "handler") EXCEPT !.body = e],
                        IntoResponse(Database(e)))]
    /\ UNCHANGED <<now, users, nextUser, tokens, tasks, nextTask, nextNote>>

(***************************************************************************)
(* The system                                                              *)
(***************************************************************************)
Init ==
    /\ now = 0
    /\ users = [id \in {"u1"} |-> SeedAdmin]
    /\ nextUser = 1
    /\ tokens = {}
    /\ tasks = [id \in {} |-> None]
    /\ nextTask = 0
    /\ nextNote = 0
    /\ req = [r \in Requests |-> IdleReq]

\* The accounts and the authorization chain, within the lifetime of the
\* tokens minted (TokenSpec covers the instants around expiry).
Next ==
    \E r \in Requests :
          \/ RequireAuth(r, AccountRoutes)
          \/ RequireAdmin(r, AccountRoutes)
          \/ Register(r)
          \/ Login(r)
          \/ Me(r)
          \/ ListUsers(r)
          \/ AdminListUsers(r)
          \/ AdminUpdateUser(r)
          \/ AdminUpdateRole(r)
          \/ AdminDeleteUser(r)
          \/ Complete(r)

Spec == Init /\ [][Next]_vars

\* The task routes, for a client that logged in as the seeded account.
TaskInit ==
    /\ now = 0
    /\ users = [id \in {"u1"} |-> SeedAdmin]
    /\ nextUser = 1
    /\ tokens = {mint_token("u1", SeedAdmin, JwtSecret, 0)}
    /\ tasks = [id \in {} |-> None]
    /\ nextTask = 0
    /\ nextNote = 0
    /\ req = [r \in Requests |-> IdleReq]

TaskNext ==
    \/ Tick(DayTargets)
    \/ \E r \in TaskSlots :
          \/ RequireAuth(r, TaskRoutes)
          \/ CreateTask(r)
          \/ UpdateTaskBegin(r)
          \/ UpdateTaskStore(r)
          \/ Complete(r)

TaskSpec == TaskInit /\ [][TaskNext]_vars

\* One client that creates a task and patches its scalar fields.
ScalarNext ==
    \/ Tick(DayTargets)
    \/ \E r \in TaskSlots :
          \/ RequireAuth(r, TaskRoutes)
          \/ CreateTask(r)
          \/ UpdateTaskBeginOf(r, ScalarBodies)
          \/ UpdateTaskStore(r)
          \/ Complete(r)

ScalarSpec == TaskInit /\ [][ScalarNext]_vars

\* Two admins, each logged in at time 0, and the token the second account
\* got when it was still a user.
OrphanInit ==
    /\ now = 0
    /\ users = [id \in {"u1", "u2"} |->
                  IF id = "u1" THEN SeedAdmin
                  ELSE [UserNew("u2", "e2", "n2", hash_password("p2", "s1"), 0)
                           EXCEPT !.role = "admin"]]
    /\ nextUser = 2
    /\ tokens = {mint_token("u1", SeedAdmin, JwtSecret, 0),
                 mint_token("u2", users["u2"], JwtSecret, 0),
                 mint_token("u2", [users["u2"] EXCEPT !.role = "user"], JwtSecret, 0)}
    /\ tasks = [id \in {} |-> None]
    /\ nextTask = 0
    /\ nextNote = 0
    /\ req = [r \in Requests |-> IdleReq]

OrphanRoutes == {"me", "admin_list_users", "admin_delete_user"}

\* One client that deletes accounts and keeps using their tokens, over the
\* instants around the tokens' expiry.
OrphanNext ==
    \/ Tick(ClockTargets)
    \/ \E r \in TaskSlots :
          \/ RequireAuth(r, OrphanRoutes)
          \/ RequireAdmin(r, OrphanRoutes)
          \/ Me(r)
          \/ AdminListUsers(r)
          \/ AdminDeleteUser(r)
          \/ Complete(r)

OrphanSpec == OrphanInit /\ [][OrphanNext]_vars

\* One client on the account routes, with a store that can fail.
FailNext ==
    \E r \in TaskSlots :
        \/ RequireAuth(r, AccountRoutes)
        \/ RequireAdmin(r, AccountRoutes)
        \/ Register(r)
        \/ Login(r)
        \/ Me(r)
        \/ ListUsers(r)
        \/ AdminListUsers(r)
        \/ AdminUpdateUser(r)
        \/ AdminUpdateRole(r)
        \/ AdminDeleteUser(r)
        \/ StoreFails(r)
        \/ Complete(r)

FailSpec == Init /\ [][FailNext]_vars

\* The listing queries of the route-coverage runs: the limits alone.
RouteQueries == {params \in ListQueries : params.page = None /\ params.status = None}

\* One client on every route of the router.
RouteNext ==
    \E r \in TaskSlots :
        \/ RequireAuth(r, AllRoutes)
        \/ RequireAdmin(r, AllRoutes)
        \/ HealthCheck(r)
        \/ Register(r)
        \/ Login(r)
        \/ Me(r)
        \/ GetDashboard(r)
        \/ ListUsers(r)
        \/ AdminListUsers(r)
        \/ AdminUpdateUser(r)
        \/ AdminUpdateRole(r)
        \/ AdminDeleteUser(r)
        \/ ListTasksCountOf(r, RouteQueries)
        \/ ListTasksFind(r)
        \/ CreateTask(r)
        \/ GetTask(r)
        \/ UpdateTaskBeginOf(r, RaceBodies)
        \/ UpdateTaskStore(r)
        \/ DeleteTask(r)
        \/ AddNoteBegin(r)
        \/ AddNoteStore(r)
        \/ DeleteNoteBegin(r)
        \/ DeleteNoteStore(r)
        \/ CtiHandler(r)
        \/ Complete(r)

RouteSpec == Init /\ [][RouteNext]_vars

\* The token codec over the instants around a token's expiry.
TokenNext ==
    \/ Tick(ClockTargets)
    \/ \E r \in TaskSlots :
          \/ Login(r)
          \/ RequireAuth(r, {"me"})
          \/ Me(r)
          \/ Complete(r)

TokenSpec == Init /\ [][TokenNext]_vars

\* The routes that write one entity by id, run by two clients side by side.
\* The routes each of the two clients calls.
PatchSlot(r) ==
    IF r = "r1" THEN {"update_task", "delete_task", "admin_update_user"}
    ELSE PatchRoutes

PatchNext ==
    \E r \in Requests :
        \/ RequireAuth(r, PatchSlot(r))
        \/ RequireAdmin(r, PatchSlot(r))
        \/ CreateTask(r)
        \/ UpdateTaskBeginOf(r, RaceBodies)
        \/ UpdateTaskStore(r)
        \/ AddNoteBegin(r)
        \/ AddNoteStore(r)
        \/ DeleteTask(r)
        \/ AdminUpdateUser(r)
        \/ AdminUpdateRole(r)
        \/ AdminDeleteUser(r)
        \/ Complete(r)

\* The store after a second account registered, and the token of the seeded
\* admin's login.
PatchInit ==
    /\ now = 0
    /\ users = [id \in {"u1", "u2"} |->
                  IF id = "u1" THEN SeedAdmin
                  ELSE UserNew("u2", "e2", "n2", hash_password("p2", "s1"), 0)]
    /\ nextUser = 2
    /\ tokens = {mint_token("u1", SeedAdmin, JwtSecret, 0)}
    /\ tasks = [id \in {} |-> None]
    /\ nextTask = 0
    /\ nextNote = 0
    /\ req = [r \in Requests |-> IdleReq]

PatchSpec == PatchInit /\ [][PatchNext]_vars

\* The requests a business rule or a validation rejects, next to those that
\* write the store.
RuleNext ==
    \/ Tick(DayTargets)
    \/ \E r \in Requests :
          \/ RequireAuth(r, RuleRoutes)
          \/ RequireAdmin(r, RuleRoutes)
          \/ CreateTask(r)
          \/ ListTasksCount(r)
          \/ ListTasksFind(r)
          \/ AdminUpdateRole(r)
          \/ AdminDeleteUser(r)
          \/ Complete(r)

RuleSpec == PatchInit /\ [][RuleNext]_vars

\* One client listing the tasks with every text of the status parameter,
\* after it created a task and patched its title or status.
ListNext ==
    \E r \in TaskSlots :
        \/ RequireAuth(r, TaskRoutes \cup {"list_tasks"})
        \/ CreateTask(r)
        \/ UpdateTaskBeginOf(r, RaceBodies)
        \/ UpdateTaskStore(r)
        \/ ListTasksCountOf(r, StatusQueries)
        \/ ListTasksFind(r)
        \/ Complete(r)

ListSpec == TaskInit /\ [][ListNext]_vars

\* Two clients that add and remove the notes of one task.
NoteNext ==
    \/ Tick(DayTargets)
    \/ \E r \in Requests :
          \/ RequireAuth(r, NoteRoutes)
          \/ CreateTask(r)
          \/ AddNoteBeginOf(r, RaceNoteIds)
          \/ AddNoteStore(r)
          \/ DeleteNoteBegin(r)
          \/ DeleteNoteStore(r)
          \/ DeleteTask(r)
          \/ Complete(r)

NoteSpec == TaskInit /\ [][NoteNext]_vars

\* A stored password_hash that PasswordHash::new does not parse.
CorruptHash == [wf |-> FALSE, salt |-> "", digest |-> <<>>]

\* The users collections login is run against: the seeded admin alone, or
\* with a second account whose stored hash is sound or corrupt.
LoginStores ==
    {[id \in {"u1"} |-> SeedAdmin]}
        \cup {[id \in {"u1", "u2"} |->
                    IF id = "u1" THEN SeedAdmin
                    ELSE UserNew("u2", "e2", "n2", h, 0)] :
                h \in {hash_password("p2", "s1"), CorruptHash}}

LoginInit ==
    /\ now = 0
    /\ users \in LoginStores
    /\ nextUser = Cardinality(DOMAIN users)
    /\ tokens = {}
    /\ tasks = [id \in {} |-> None]
    /\ nextTask = 0
    /\ nextNote = 0
    /\ req = [r \in Requests |-> IdleReq]

\* Two clients logging in side by side.
LoginNext ==
    \/ Tick(DayTargets)
    \/ \E r \in Requests :
          \/ Login(r)
          \/ Complete(r)

LoginSpec == LoginInit /\ [][LoginNext]_vars

(***************************************************************************)
(* Properties                                                              *)
(***************************************************************************)
\* Request r gets its response in this step.
Completes(r) == req[r].pc # "done" /\ req'[r].pc = "done"

\* A body every recognized key of which has the shape its field needs.
WellShaped(body) ==
    /\ \A k \in ScalarFields \cap DOMAIN body : body[k].t \in {"null", "str"}
    /\ "assignee_id" \in DOMAIN body => body["assignee_id"].t \in {"null", "str"}
    /\ "cti" \in DOMAIN body =>
          \/ body["cti"].t = "null"
          \/ /\ body["cti"].t = "obj"
             /\ CtiKeys \subseteq DOMAIN body["cti"].o
             /\ \A k \in CtiKeys : body["cti"].o[k].t = "str"

\* The JSON a decoded value of nullable field k stands for.
AsJson(k, v) == IF k = "cti" THEN CtiToBson(v) ELSE JStr(v)

\* C1: update_task decodes each of assignee_id and cti, whatever the other
\* keys of the body are, to the outer None when the key is omitted, to
\* Some(None) when it is null and to Some(Some(v)) when it is the value v;
\* a body is rejected only when a recognized key is ill-shaped.
C1_TriStateDecode ==
    \A r \in Requests :
        (req[r].route = "update_task" /\ req[r].pc \in {"built", "done"}
            /\ req[r].trace # <<>> /\ req[r].status # 401) =>
            LET body == req[r].body
                p == req[r].patch
            IN  IF "handler" \notin {req[r].trace[i] : i \in 1..Len(req[r].trace)}
                THEN req[r].status = 422 /\ ~WellShaped(body)
                ELSE /\ WellShaped(body)
                     /\ \A k \in NullableFields :
                           /\ k \notin DOMAIN body => p[k].tag = "None"
                           /\ (k \in DOMAIN body /\ body[k].t = "null") =>
                                 p[k].tag = "Some" /\ p[k].v.tag = "None"
                           /\ (k \in DOMAIN body /\ body[k].t # "null") =>
                                 /\ p[k].tag = "Some" /\ p[k].v.tag = "Some"
                                 /\ AsJson(k, p[k].v.v) = body[k]

\* A decoded body with assignee_id null, cti a value and title omitted: the
\* three states side by side.
C1_Witness ==
    \E r \in Requests :
        /\ req[r].route = "update_task" /\ req[r].pc = "built"
        /\ DOMAIN req[r].body = {"assignee_id", "cti"}
        /\ req[r].body["assignee_id"].t = "null"
        /\ req[r].patch["assignee_id"] = Some(None)
        /\ req[r].patch["cti"] = Some(Some(CtiB))
        /\ req[r].patch["title"] = None

\* C2: an update_task that succeeds on an existing task leaves every field
\* whose decoded state is absent, and id, notes and created_at, as stored,
\* and writes updated_at with the time the handler read, whatever the patch
\* mentions.
C2_Frame ==
    /\ \A r \in Requests :
          (req[r].pc # "built" /\ req'[r].pc = "built") =>
              /\ "updated_at" \in DOMAIN req'[r].set_doc
              /\ req'[r].set_doc["updated_at"] = BDate(now)
    /\ \A r \in Requests :
          (req[r].pc = "built" /\ req'[r].pc = "done" /\ req'[r].status = 200) =>
              LET id == req[r].path
                  p == req[r].patch
              IN  /\ id \in DOMAIN tasks /\ id \in DOMAIN tasks'
                  /\ \A k \in PatchFields :
                        IsNone(p[k]) => tasks'[id][k] = tasks[id][k]
                  /\ \A k \in {"id", "notes", "created_at"} :
                        tasks'[id][k] = tasks[id][k]
                  /\ "updated_at" \in DOMAIN req[r].set_doc
                  /\ tasks'[id]["updated_at"] = req[r].set_doc["updated_at"]
                  /\ req'[r].out.updated_at = req[r].set_doc["updated_at"].n

C2_FrameHolds == [][C2_Frame]_vars

\* An empty patch was applied to a task with an assignee at a later time than
\* the task's creation: only updated_at moved.
C2_Witness ==
    \E r \in Requests :
        /\ req[r].route = "update_task" /\ req[r].pc = "done" /\ req[r].status = 200
        /\ DOMAIN req[r].body = {}
        /\ req[r].out.assignee_id = Some("u1")
        /\ req[r].out.updated_at > req[r].out.created_at

\* C3: an update_task that succeeds stores null for a nullable field given
\* as null, whatever it held, and the value for one given as a value; the
\* body {"assignee_id": null} changes nothing else but updated_at.
C3_ClearAndSet ==
    \A r \in Requests :
        (req[r].pc = "built" /\ req'[r].pc = "done" /\ req'[r].status = 200) =>
            LET id == req[r].path
                p == req[r].patch
            IN  /\ \A k \in NullableFields :
                      /\ (IsSome(p[k]) /\ IsNone(p[k].v)) =>
                            /\ tasks'[id][k] = JNull
                            /\ req'[r].out[k] = None
                      /\ (IsSome(p[k]) /\ IsSome(p[k].v)) =>
                            /\ tasks'[id][k] = AsJson(k, p[k].v.v)
                            /\ req'[r].out[k] = Some(p[k].v.v)
                /\ (DOMAIN req[r].body = {"assignee_id"}
                        /\ req[r].body["assignee_id"].t = "null") =>
                      \A k \in DOMAIN tasks[id] \ {"assignee_id", "updated_at"} :
                          tasks'[id][k] = tasks[id][k]

C3_ClearAndSetHolds == [][C3_ClearAndSet]_vars

\* {"assignee_id": null} was applied to the task created with an assignee
\* and a classification: the assignee is gone, the classification is kept.
C3_Witness ==
    \E r \in Requests :
        /\ req[r].route = "update_task" /\ req[r].pc = "done" /\ req[r].status = 200
        /\ DOMAIN req[r].body = {"assignee_id"}
        /\ req[r].body["assignee_id"].t = "null"
        /\ req[r].out.assignee_id = None
        /\ req[r].out.cti = Some(CtiA)
        /\ tasks[req[r].path]["assignee_id"] = JNull

(***************************************************************************)
(* The authorization chain                                                 *)
(***************************************************************************)
AdminStages == <<"require_auth", "require_admin", "handler">>

IsPrefix(s, t) == Len(s) <= Len(t) /\ \A i \in 1..Len(s) : s[i] = t[i]

InTrace(q, stage) == \E i \in 1..Len(q.trace) : q.trace[i] = stage

\* The header carries a well-formed token signed with the server's secret.
SignedByServer(h) ==
    /\ h.kind = "bearer" /\ h.token.wf
    /\ h.token.sig = HS256(JwtSecret, h.token.claims)

\* The requests on admin routes that have entered the chain.
AdminRequests == {r \in Requests : req[r].pc # "idle" /\ req[r].route \in AdminRoutes}

\* C4: on an admin route, a request with no token or an invalid one is
\* answered 401 Unauthorized by require_auth and require_admin is never
\* evaluated for it; a request with a valid token whose role is not admin
\* is answered 403 Forbidden and never reaches the handler.
C4_AdminGate ==
    \A r \in AdminRequests :
        LET q == req[r]
        IN  /\ ~SignedByServer(q.header) =>
                  /\ q.pc = "done" /\ q.status = 401
                  /\ q.out = [error |-> "Unauthorized"]
                  /\ q.trace = <<"require_auth">>
            /\ (SignedByServer(q.header) /\ q.header.token.claims.role # "admin") =>
                  /\ ~InTrace(q, "handler")
                  /\ q.pc = "done" =>
                        /\ q.status = 403
                        /\ q.out = [error |-> "Forbidden"]
                        /\ q.trace = <<"require_auth", "require_admin">>

\* An admin route answered 403 to a minted non-admin token, and another
\* answered 401 to a forged token.
C4_Witness ==
    /\ \E r \in AdminRequests :
          /\ req[r].status = 403 /\ req[r].header.token \in tokens
          /\ req[r].header.token.claims.role = "user"
    /\ \E r \in AdminRequests :
          /\ req[r].status = 401 /\ req[r].header.kind = "bearer"
          /\ req[r].header.token.wf

\* The stages of an admin request run in the order of AdminStages, each
\* after the one before it passed.
C5_Order ==
    \A r \in AdminRequests :
        LET q == req[r]
        IN  /\ q.trace # <<>> /\ IsPrefix(q.trace, AdminStages)
            /\ InTrace(q, "require_admin") => IsSome(q.claims)
            /\ InTrace(q, "handler") =>
                  /\ IsSome(q.claims) /\ q.claims.v.role = "admin"
                  /\ q.stage = Len(Layers(q.route))
            /\ q.status = 401 => q.trace = <<"require_auth">>
            /\ q.status = 403 => q.trace = <<"require_auth", "require_admin">>
            /\ (q.pc = "done" /\ ~InTrace(q, "handler")) => q.status \in {401, 403}
            /\ q.pc = "run" => Len(q.trace) = q.stage /\ q.stage \in 1..2

\* The store is written only by the step in which a handler runs, and on an
\* admin route only by a request both gates have passed before that step.
C5_Write ==
    users' # users =>
        \E r \in Requests :
            /\ Completes(r)
            /\ req'[r].trace[Len(req'[r].trace)] = "handler"
            /\ req'[r].route \in AdminRoutes =>
                  /\ req[r].pc = "run"
                  /\ req[r].trace = <<"require_auth", "require_admin">>
                  /\ req'[r].trace = AdminStages

\* C5: every request to an admin route runs require_auth, then
\* require_admin, then the handler: require_admin runs only with the Claims
\* require_auth attached, the handler and its store write run only after
\* both gates passed, and a rejecting stage is the last stage that runs.
C5_StageOrder == []C5_Order /\ [][C5_Write]_vars

\* One admin request stopped at the first gate while another has gone
\* through both gates and its handler has changed an account.
C5_Witness ==
    \E r1 \in AdminRequests, r2 \in AdminRequests :
        /\ req[r1].status = 401 /\ req[r1].trace = <<"require_auth">>
        /\ req[r2].route = "admin_update_role" /\ req[r2].status = 200
        /\ req[r2].trace = AdminStages

\* C6: a request authenticated as account X (Claims.sub = X) never changes
\* the stored role of X and never deletes X, whatever role its token
\* carries and whatever the other requests do around it.
C6_NoSelfChange ==
    \A r \in Requests :
        (req'[r] # req[r] /\ IsSome(req'[r].claims)) =>
            LET x == req'[r].claims.v.sub
            IN  x \in DOMAIN users =>
                    x \in DOMAIN users' /\ users'[x].role = users[x].role

C6_NoSelfChangeHolds == [][C6_NoSelfChange]_vars

\* An admin asked for the deletion of its own account and for a change of
\* its own role; the account is still there, still an admin.
C6_Witness ==
    \E r1 \in AdminRequests, r2 \in AdminRequests :
        /\ req[r1].route = "admin_delete_user"
        /\ req[r2].route = "admin_update_role"
        /\ \A r \in {r1, r2} :
              /\ InTrace(req[r], "handler")
              /\ req[r].path = req[r].claims.v.sub
              /\ req[r].path \in DOMAIN users
              /\ users[req[r].path].role = "admin"
        /\ req[r2].body.role = "user"

\* C7: admin_update_role and admin_delete_user called with the caller's own
\* id answer 400 BadRequest and leave the store as it is; called for another
\* existing admin account (with a valid role) they answer 200 / 204 and that
\* account has the new role / is gone.
C7_SelfGuard ==
    \A r \in Requests :
        (/\ Completes(r)
         /\ req'[r].route \in {"admin_update_role", "admin_delete_user"}
         /\ InTrace(req'[r], "handler")) =>
            LET q == req'[r]
                id == q.path
            IN  /\ id = q.claims.v.sub =>
                      /\ q.status = 400
                      /\ q.out = [error |-> IF q.route = "admin_update_role"
                                            THEN "Cannot change your own role"
                                            ELSE "Cannot delete your own account"]
                      /\ users' = users
                /\ (/\ id # q.claims.v.sub
                    /\ id \in DOMAIN users
                    /\ users[id].role = "admin"
                    /\ (q.route = "admin_update_role" => ValidRole(q.body.role))) =>
                      IF q.route = "admin_delete_user"
                      THEN /\ q.status = 204
                           /\ users' = [x \in DOMAIN users \ {id} |-> users[x]]
                      ELSE /\ q.status = 200
                           /\ DOMAIN users' = DOMAIN users
                           /\ users'[id].role = q.body.role
                           /\ q.out.role = q.body.role
                           /\ \A x \in DOMAIN users \ {id} : users'[x] = users[x]

C7_SelfGuardHolds == [][C7_SelfGuard]_vars

\* The second admin deleted the seeded admin's account, and a self-deletion
\* was answered 400.
C7_Witness ==
    /\ \E r \in AdminRequests :
          /\ req[r].route = "admin_delete_user" /\ req[r].status = 204
          /\ req[r].claims.v.sub = "u2" /\ req[r].path = "u1"
          /\ "u1" \notin DOMAIN users
    /\ \E r \in AdminRequests :
          /\ req[r].route = "admin_delete_user" /\ req[r].status = 400
          /\ req[r].path = req[r].claims.v.sub

\* C8: the role gate decides on the role the token was minted with, not on
\* the stored role of the account: a minted token that carries the admin role
\* goes through both gates to the handler, and one that carries another
\* role is answered 403, whatever role the account has by then.
C8_RoleSnapshot ==
    \A r \in AdminRequests :
        LET q == req[r]
            c == q.header.token.claims
        IN  (q.header.kind = "bearer" /\ q.header.token \in tokens) =>
                /\ q.claims = Some(c)
                /\ c.role = "admin" =>
                      /\ q.status \notin {401, 403}
                      /\ q.pc = "done" => InTrace(q, "handler")
                /\ c.role # "admin" =>
                      /\ ~InTrace(q, "handler")
                      /\ q.pc = "done" => q.status = 403

\* A token minted before its account was demoted has reached an admin
\* handler, and a token minted before its account was promoted was
\* answered 403.
C8_Witness ==
    /\ \E r \in AdminRequests :
          /\ req[r].header.token \in tokens /\ req[r].status \in {200, 204}
          /\ req[r].claims.v.sub \in DOMAIN users
          /\ req[r].claims.v.role = "admin"
          /\ users[req[r].claims.v.sub].role = "user"
    /\ \E r \in AdminRequests :
          /\ req[r].header.token \in tokens /\ req[r].status = 403
          /\ req[r].claims.v.sub \in DOMAIN users
          /\ req[r].claims.v.role = "user"
          /\ users[req[r].claims.v.sub].role = "admin"

(***************************************************************************)
(* The token codec                                                         *)
(***************************************************************************)
\* The requests that arrive in this step with a minted token.
Arrives(r) ==
    /\ req[r].pc = "idle" /\ req'[r].pc # "idle"
    /\ req'[r].header.kind = "bearer" /\ req'[r].header.token \in tokens

\* C9: a token minted at time t expires at t + 24h; require_auth accepts it
\* one second before its expiry and answers 401 Unauthorized one second
\* after it.
C9_Strict ==
    \A r \in Requests :
        /\ (Completes(r) /\ req'[r].route = "login" /\ req'[r].status = 200) =>
              req'[r].out.token.claims.exp = now + 24 * 3600
        /\ Arrives(r) =>
              LET expires_at == req'[r].header.token.claims.exp
              IN  /\ now = expires_at - 1 =>
                        req'[r].claims = Some(req'[r].header.token.claims)
                  /\ now = expires_at + 1 =>
                        /\ req'[r].pc = "done" /\ req'[r].status = 401
                        /\ req'[r].claims = None

C9_StrictExpiry == [][C9_Strict]_vars

\* C10: the token a successful register or login returns validates, with the
\* server's secret and before its expiry, to Claims whose sub, email and
\* role are the id, email and role of the account at that moment; the
\* Claims a handler sees are those of the minted token the request carried.
C10_Mint ==
    \A r \in Requests :
        (Completes(r) /\ req'[r].route \in PublicRoutes /\ req'[r].status = 200) =>
            LET token == req'[r].out.token
                id == req'[r].out.user.id
                token_data == decode(token, JwtSecret, now)
            IN  /\ id \in DOMAIN users'
                /\ users'[id].email = req'[r].body.email
                /\ token \in tokens'
                /\ token_data.ok
                /\ token_data.v.sub = id
                /\ token_data.v.email = users'[id].email
                /\ token_data.v.role = users'[id].role
                /\ req'[r].out.user.role = token_data.v.role

C10_Seen ==
    \A r \in Requests :
        IsSome(req[r].claims) =>
            /\ req[r].header.kind = "bearer"
            /\ req[r].header.token \in tokens
            /\ req[r].claims.v = req[r].header.token.claims
            /\ decode(req[r].header.token, JwtSecret, now) = Ok(req[r].claims.v)
            /\ (req[r].route = "me" /\ req[r].status = 200) =>
                  req[r].out.id = req[r].claims.v.sub

C10_RoundTrip == []C10_Seen /\ [][C10_Mint]_vars

\* The seeded admin logged in, and its token took a request to the me
\* handler, which answered with the account the Claims name.
C10_Witness ==
    \E r \in Requests :
        /\ req[r].route = "me" /\ req[r].status = 200
        /\ req[r].claims.v.role = "admin"
        /\ req[r].out.id = req[r].claims.v.sub
        /\ req[r].out.role = "admin"
        /\ req[r].out.email = req[r].claims.v.email

\* C11: on a protected route a request whose Authorization header is absent
\* or not of the form "Bearer <token>", or whose token is malformed, signed
\* with another secret or past its expiry, is answered 401 Unauthorized by
\* require_auth: no Claims are attached and no later stage runs.
C11_Reject ==
    \A r \in Requests :
        (req[r].pc = "idle" /\ req'[r].pc # "idle"
            /\ req'[r].route \notin PublicRoutes) =>
            LET h == req'[r].header
            IN  (~SignedByServer(h) \/ h.token.claims.exp < now) =>
                    /\ req'[r].pc = "done" /\ req'[r].status = 401
                    /\ req'[r].out = [error |-> "Unauthorized"]
                    /\ req'[r].claims = None
                    /\ req'[r].trace = <<"require_auth">>

C11_Unauthorized == [][C11_Reject]_vars

(***************************************************************************)
(* Credentials and accounts                                                *)
(***************************************************************************)
\* The accounts a login payload's email matches.
Matching(payload) == {id \in DOMAIN users : users[id].email = payload.email}

\* The causes a login fails for.
UnknownAccount(payload) == Matching(payload) = {}
CorruptStoredHash(payload) ==
    \E id \in Matching(payload) : ~users[id].password_hash.wf
WrongPassword(payload) ==
    \E id \in Matching(payload) :
        /\ users[id].password_hash.wf
        /\ users[id].password_hash.digest #
              Argon2(payload.password, users[id].password_hash.salt)

C12_SameOutcome ==
    \A r1 \in Requests, r2 \in Requests :
        (/\ req[r1].route = "login" /\ req[r1].pc = "done" /\ req[r1].status # 200
         /\ req[r2].route = "login" /\ req[r2].pc = "done" /\ req[r2].status # 200) =>
            /\ req[r1].status = req[r2].status
            /\ req[r1].out = req[r2].out
            /\ req[r1].status = 401
            /\ req[r1].out = [error |-> "Unauthorized"]

C12_FailedLogin ==
    \A r \in Requests :
        (Completes(r) /\ req'[r].route = "login") =>
            LET payload == req'[r].body
                fails == \/ UnknownAccount(payload)
                         \/ WrongPassword(payload)
                         \/ CorruptStoredHash(payload)
            IN  /\ fails <=> req'[r].status # 200
                /\ fails =>
                      /\ req'[r].status = 401
                      /\ req'[r].out = [error |-> "Unauthorized"]
                      /\ tokens' = tokens
                      /\ users' = users

\* C12: a login that fails because no account has the email, because the
\* password is wrong or because the stored hash is corrupt is answered with
\* the same status and body, 401 Unauthorized, whatever the cause, and it
\* mints no token and leaves the store as it is.
C12_Indistinguishable == []C12_SameOutcome /\ [][C12_FailedLogin]_vars

\* Two failed logins side by side: a wrong password for the seeded admin and
\* the right password for the account whose stored hash is corrupt.
C12_Witness ==
    /\ req["r1"].route = "login" /\ req["r1"].status = 401
    /\ WrongPassword(req["r1"].body)
    /\ req["r2"].route = "login" /\ req["r2"].status = 401
    /\ CorruptStoredHash(req["r2"].body)
    /\ req["r2"].body.password = "p2"

\* C13: no two distinct accounts of the users collection share an email and
\* no two share a username, in every state register, admin_update_user and
\* admin_delete_user requests lead to, in any interleaving.
C13_Unique ==
    \A a \in DOMAIN users, b \in DOMAIN users :
        a # b => /\ users[a].email # users[b].email
                 /\ users[a].username # users[b].username

\* Two accounts are stored, after a register and an admin_update_user that
\* wrote the second account's username.
C13_Witness ==
    /\ Cardinality(DOMAIN users) = 2
    /\ \E r \in Requests :
          /\ req[r].route = "admin_update_user" /\ req[r].status = 200
          /\ req[r].path = "u2"
          /\ IsSome(req[r].body.username)
          /\ users["u2"].username = "n2"
          /\ users["u2"].updated_at = now

\* The accounts other than `id` that hold the email or the username.
Holders(id, email, username) ==
    {o \in DOMAIN users \ {id} :
        \/ IsSome(email) /\ users[o].email = email.v
        \/ IsSome(username) /\ users[o].username = username.v}

C14_Conflict ==
    \A r \in Requests :
        (Completes(r) /\ InTrace(req'[r], "handler")) =>
            LET q == req'[r]
                taken ==
                    CASE q.route = "register" ->
                           Holders("", Some(q.body.email), Some(q.body.username)) # {}
                      [] q.route = "admin_update_user" ->
                           /\ q.path \in DOMAIN users
                           /\ Holders(q.path, q.body.email, q.body.username) # {}
                      [] OTHER -> FALSE
            IN  /\ taken =>
                      /\ q.status = 409
                      /\ q.out = [error |-> "Email or username already taken"]
                      /\ users' = users
                      /\ tokens' = tokens
                      /\ nextUser' = nextUser
                /\ q.status = 500 => ~taken

\* C14: a register whose email or username an account already has, and an
\* admin_update_user that would give an account an email or username of
\* another account, are answered 409 Conflict, never a 500, and create no
\* account, issue no token and leave the users collection as it is.
C14_ConflictHolds == [][C14_Conflict]_vars

\* An admin_update_user that would give the second account the seeded
\* admin's email was answered 409.
C14_Witness ==
    \E r \in Requests :
        /\ req[r].route = "admin_update_user" /\ req[r].status = 409
        /\ req[r].path = "u2" /\ req[r].body.email = Some("e1")
        /\ "u2" \in DOMAIN users /\ users["u2"].email = "e2"

\* C15: a register whose email and username are not taken creates exactly
\* one account and answers 201 with a token for that account and its public
\* user record.
C15_Register ==
    \A r \in Requests :
        (/\ Completes(r) /\ req'[r].route = "register"
         /\ Holders("", Some(req'[r].body.email), Some(req'[r].body.username)) = {}) =>
            LET q == req'[r]
                created == DOMAIN users' \ DOMAIN users
            IN  /\ Cardinality(created) = 1
                /\ \A id \in DOMAIN users : users'[id] = users[id]
                /\ \A id \in created :
                      /\ users'[id].email = q.body.email
                      /\ users'[id].username = q.body.username
                      /\ q.out.user = UserPublic(users'[id])
                      /\ decode(q.out.token, JwtSecret, now).ok
                      /\ decode(q.out.token, JwtSecret, now).v.sub = id
                /\ q.status = 201

C15_Created == [][C15_Register]_vars

\* The fields of a public user record.
PublicFields == {"id", "email", "username", "role", "created_at"}

\* The user records the response of a finished request carries.
ReturnedUsers(q) ==
    IF q.pc # "done" \/ q.status # 200 THEN {}
    ELSE CASE q.route \in {"register", "login"} -> {q.out.user}
           [] q.route \in {"me", "admin_update_user", "admin_update_role"} -> {q.out}
           [] q.route \in {"list_users", "admin_list_users"} ->
                 {q.out[i] : i \in 1..Len(q.out)}
           [] OTHER -> {}

\* C16: the user record in a response of register, login, me, list_users,
\* admin_list_users, admin_update_user and admin_update_role carries id,
\* email, username, role and created_at and nothing else, so never the
\* password hash; the token beside it carries only the Claims.
C16_NoHash ==
    \A r \in Requests :
        /\ \A u \in ReturnedUsers(req[r]) : DOMAIN u = PublicFields
        /\ (req[r].pc = "done" /\ req[r].status = 200
                /\ req[r].route \in {"register", "login"}) =>
              /\ DOMAIN req[r].out = {"token", "user"}
              /\ DOMAIN req[r].out.token.claims = {"sub", "email", "role", "exp"}

\* list_users answered with the records of two stored accounts while a
\* login on the other connection answered with a token and a user record.
C16_Witness ==
    \E r1 \in Requests, r2 \in Requests :
        /\ req[r1].route = "list_users" /\ req[r1].status = 200
        /\ Len(req[r1].out) = 2
        /\ req[r1].out[2].id \in DOMAIN users
        /\ "password_hash" \in DOMAIN users[req[r1].out[2].id]
        /\ req[r2].route = "login" /\ req[r2].status = 200

(***************************************************************************)
(* Rejections and the store                                                *)
(***************************************************************************)
\* The query of a list_tasks request breaks a rule of the handler.
BadQuery(params) ==
    \/ params.limit = 0 \/ params.limit > 100
    \/ params.page = 0
    \/ /\ IsSome(params.status)
       /\ \E i \in 1..Len(params.status.v) :
             params.status.v[i] \notin {",", " ", "todo", "in_progress", "done"}

\* The request that completes in this step breaks a business rule.
BreaksRule(q) ==
    /\ InTrace(q, "handler")
    /\ \/ q.route = "admin_update_role"
          /\ (q.path = q.claims.v.sub \/ q.body.role \notin {"user", "admin"})
       \/ q.route = "admin_delete_user" /\ q.path = q.claims.v.sub
       \/ q.route = "list_tasks" /\ BadQuery(q.body)

\* C17: a change of one's own role, the deletion of one's own account, a
\* role other than 'user' or 'admin', a page or limit out of range and an
\* invalid status filter are each answered 400 Bad Request; a request that
\* is answered 400 gets that answer in the first step of its handler, before
\* any store round trip, and the step leaves users and tasks as they were.
C17_Rejected ==
    \A r \in Requests :
        Completes(r) =>
            /\ BreaksRule(req'[r]) => req'[r].status = 400
            /\ req'[r].status = 400 =>
                  /\ req[r].pc \in {"idle", "run"}
                  /\ ~InTrace(req[r], "handler")
                  /\ BreaksRule(req'[r])
                  /\ users' = users /\ tasks' = tasks /\ tokens' = tokens

C17_RejectedBeforeStore == [][C17_Rejected]_vars

\* With a task and a second account stored, a list_tasks with an invalid
\* status filter was answered 400 next to a role change to 'root' answered
\* 400; the account still has the role it had.
C17_Witness ==
    /\ req["r1"].route = "list_tasks" /\ req["r1"].status = 400
    /\ IsSome(req["r1"].body.status)
    /\ DOMAIN tasks # {}
    /\ req["r2"].route = "admin_update_role" /\ req["r2"].status = 400
    /\ req["r2"].path = "u2" /\ req["r2"].body.role = "root"
    /\ "u2" \in DOMAIN users /\ users["u2"].role = "user"

(***************************************************************************)
(* Patches                                                                 *)
(***************************************************************************)
\* Request r gets the answer of its update_task on task id in this step, and
\* the step takes the task from its old document to one that has every field
\* of the patch and differs in no other field.
TaskPatched(r, id) ==
    /\ req[r].route = "update_task" /\ req[r].pc = "built" /\ req[r].path = id
    /\ Completes(r)
    /\ \A k \in DOMAIN tasks[id] :
          tasks'[id][k] = IF k \in DOMAIN req[r].set_doc
                          THEN req[r].set_doc[k] ELSE tasks[id][k]
    /\ \A k \in PatchFields :
          IsSome(req[r].patch[k]) => k \in DOMAIN req[r].set_doc

\* Request r gets the answer of its add_note on task id in this step.
NotePushed(r, id) ==
    /\ req[r].route = "add_note" /\ req[r].pc = "built" /\ req[r].path = id
    /\ Completes(r)

\* Request r gets the answer of its account patch on account id in this step,
\* and the step applies the whole patch and nothing else but updated_at.
UserPatched(r, id) ==
    /\ Completes(r) /\ req'[r].path = id /\ req'[r].status = 200
    /\ LET body == req'[r].body
           old == users[id]
           new == users'[id]
       IN  /\ new.updated_at = now
           /\ \A k \in {"id", "password_hash", "created_at"} : new[k] = old[k]
           /\ \/ /\ req'[r].route = "admin_update_user"
                 /\ new.email = IF IsSome(body.email) THEN body.email.v ELSE old.email
                 /\ new.username = IF IsSome(body.username)
                                   THEN body.username.v ELSE old.username
                 /\ new.role = old.role
              \/ /\ req'[r].route = "admin_update_role"
                 /\ new.role = body.role
                 /\ new.email = old.email /\ new.username = old.username

\* C18: a stored task or account changes only in the one step in which a
\* patch of it (or, for a task, a note) is answered, and that step applies
\* every field of the patch at once; the entity a successful update_task,
\* admin_update_user or admin_update_role returns is the stored entity after
\* that step and holds every value the patch set.
C18_Atomic ==
    /\ \A id \in DOMAIN tasks \cap DOMAIN tasks' :
          tasks'[id] # tasks[id] =>
              \E r \in Requests : TaskPatched(r, id) \/ NotePushed(r, id)
    /\ \A id \in DOMAIN users \cap DOMAIN users' :
          users'[id] # users[id] => \E r \in Requests : UserPatched(r, id)
    /\ \A r \in Requests :
          (Completes(r) /\ req'[r].status = 200) =>
              LET q == req'[r]
              IN  /\ q.route = "update_task" =>
                        /\ TaskPatched(r, q.path)
                        /\ Ok(q.out) = TaskFromDoc(tasks'[q.path])
                        /\ \A k \in PatchFields :
                              IsSome(q.patch[k]) => q.out[k] = q.patch[k].v
                  /\ q.route \in {"admin_update_user", "admin_update_role"} =>
                        /\ UserPatched(r, q.path)
                        /\ q.out = UserPublic(users'[q.path])

C18_AtomicPatch == [][C18_Atomic]_vars

\* A patch of title and status was answered with the task holding both
\* while another client's patch of the same task waits for the store; a
\* role change of the second account was applied as well.
C18_Witness ==
    \E r \in Requests, o \in Requests :
        /\ r # o
        /\ req[r].route = "update_task" /\ req[r].status = 200
        /\ IsSome(req[r].patch.title) /\ IsSome(req[r].patch.status)
        /\ req[r].out.title = "T2" /\ req[r].out.status = "done"
        /\ req[o].route = "update_task" /\ req[o].pc = "built"
        /\ req[o].path = req[r].path
        /\ "u2" \in DOMAIN users /\ users["u2"].role = "admin"

(***************************************************************************)
(* Patches of an id nothing is stored under                                *)
(***************************************************************************)
\* Request r, past the checks of its handler, gets in this step the answer
\* of a patch whose id matches no stored entity.
PatchesNothing(r) ==
    /\ Completes(r)
    /\ \/ /\ req[r].pc = "built" /\ req[r].route \in {"update_task", "add_note"}
          /\ req[r].path \notin DOMAIN tasks
       \/ /\ req'[r].route \in {"admin_update_user", "admin_update_role"}
          /\ InTrace(req'[r], "handler")
          /\ ~BreaksRule(req'[r])
          /\ req'[r].path \notin DOMAIN users

\* C19: an update_task, add_note, admin_update_user or admin_update_role
\* that reaches the store with an id no stored entity has is answered 404
\* Not Found and leaves the store as it was, also when another request
\* deleted the entity after the patch was received; a task appears in the
\* store only by create_task, and no account appears by a patch.
C19_NoUpsert ==
    /\ \A r \in Requests :
          PatchesNothing(r) =>
              /\ req'[r].status = 404
              /\ req'[r].out = [error |-> "Not found"]
              /\ tasks' = tasks /\ users' = users
    /\ \A id \in DOMAIN tasks' \ DOMAIN tasks :
          \E r \in Requests :
              Completes(r) /\ req'[r].route = "create_task" /\ req'[r].status = 201
    /\ DOMAIN users' \subseteq DOMAIN users

C19_NotFound == [][C19_NoUpsert]_vars

\* A patch of task t1 was answered 404 next to the delete_task that removed
\* t1, and t1 is not stored.
C19_Witness ==
    \E r \in Requests, o \in Requests :
        /\ req[r].route \in {"update_task", "add_note"}
        /\ req[r].status = 404 /\ req[r].path = "t1"
        /\ req[o].route = "delete_task" /\ req[o].status = 204
        /\ req[o].path = "t1"
        /\ "t1" \notin DOMAIN tasks

(***************************************************************************)
(* Two patches of one task                                                 *)
(***************************************************************************)
\* Request o's update_task of task id was applied and nothing has written
\* the fields of its patch since.
LastApplied(o, id) ==
    /\ req[o].pc = "done" /\ req[o].route = "update_task"
    /\ req[o].status = 200 /\ req[o].path = id
    /\ id \in DOMAIN tasks
    /\ \A k \in DOMAIN req[o].set_doc : tasks[id][k] = req[o].set_doc[k]

\* C20: two update_task requests in flight on the same task are applied one
\* after the other by the store; when the second is applied, the task holds
\* the second patch's value in every field the second patch mentions and
\* still holds the first patch's value in every field only the first
\* mentions, whichever of the two is applied second.
C20_Serialized ==
    \A r \in Requests, o \in Requests :
        LET id == req[r].path
        IN  (/\ r # o
             /\ req[r].pc = "built" /\ req[r].route = "update_task"
             /\ Completes(r)
             /\ LastApplied(o, id)) =>
                /\ req'[r].status = 200
                /\ \A k \in DOMAIN req[r].set_doc :
                      tasks'[id][k] = req[r].set_doc[k]
                /\ \A k \in DOMAIN req[o].set_doc \ DOMAIN req[r].set_doc :
                      tasks'[id][k] = req[o].set_doc[k]
                /\ \A k \in PatchFields :
                      /\ IsSome(req[r].patch[k]) => req'[r].out[k] = req[r].patch[k].v
                      /\ (IsNone(req[r].patch[k]) /\ IsSome(req[o].patch[k])) =>
                            req'[r].out[k] = req[o].patch[k].v

C20_LastWriterPerField == [][C20_Serialized]_vars

\* A patch of the title alone and a patch of the status alone were both
\* answered 200 on the same task, and the task holds the new title and the
\* new status.
C20_Witness ==
    \E r \in Requests, o \in Requests :
        /\ r # o
        /\ \A x \in {r, o} :
              /\ req[x].route = "update_task" /\ req[x].status = 200
              /\ req[x].path = "t1"
        /\ IsSome(req[r].patch.title) /\ IsNone(req[r].patch.status)
        /\ IsNone(req[o].patch.title) /\ IsSome(req[o].patch.status)
        /\ "t1" \in DOMAIN tasks
        /\ tasks["t1"].title = JStr("T2") /\ tasks["t1"].status = JStr("done")

(***************************************************************************)
(* Notes                                                                   *)
(***************************************************************************)
\* The fields of a stored task but its notes and updated_at.
TaskFrame == {"id", "title", "description", "status", "assignee_id", "cti",
              "created_at"}

NoteIdsOf(doc) == {doc.notes.a[i].id : i \in 1..Len(doc.notes.a)}

\* C21: an add_note on a stored task is answered 200 and appends exactly one
\* note at the end of the task's notes, whose id no note of the task had and
\* whose author is the sub of the request's Claims; the notes already there
\* and every field but updated_at stay as they were, so of two add_note
\* requests in flight on the same task neither loses its note to the other.
C21_Append ==
    \A r \in Requests :
        LET id == req[r].path
        IN  (/\ req[r].pc = "built" /\ req[r].route = "add_note"
             /\ Completes(r)
             /\ id \in DOMAIN tasks) =>
                LET old == tasks[id].notes.a
                    new == tasks'[id].notes.a
                IN  /\ req'[r].status = 200
                    /\ Len(new) = Len(old) + 1
                    /\ SubSeq(new, 1, Len(old)) = old
                    /\ new[Len(new)].id \notin NoteIdsOf(tasks[id])
                    /\ new[Len(new)].author = req[r].claims.v.sub
                    /\ new[Len(new)].note = req[r].body.note.s
                    /\ \A k \in TaskFrame : tasks'[id][k] = tasks[id][k]
                    /\ req'[r].out.notes = new

C21_AppendOne == [][C21_Append]_vars

\* Two add_note requests on the same task were both answered 200 and the
\* task holds both notes, the one answered first in front.
C21_Witness ==
    /\ \A r \in Requests :
          /\ req[r].route = "add_note" /\ req[r].status = 200
          /\ req[r].path = "t1"
    /\ "t1" \in DOMAIN tasks
    /\ Len(tasks["t1"].notes.a) = 2
    /\ Len(req["r1"].out.notes) = 2 /\ Len(req["r2"].out.notes) = 1
    /\ tasks["t1"].notes.a[1].id # tasks["t1"].notes.a[2].id

\* C22: a delete_note on a stored task is answered 200; it removes the notes
\* whose id is the note id of the path and no other, the remaining notes
\* keeping their order, and stamps updated_at with the clock it read, also
\* when no note has that id and the notes stay as they are; on a task that
\* is not stored it is answered 404 Not Found and changes nothing.
C22_Remove ==
    \A r \in Requests :
        LET id == req[r].path
            note_id == req[r].body
        IN  (/\ req[r].pc = "built" /\ req[r].route = "delete_note"
             /\ Completes(r)) =>
                IF id \in DOMAIN tasks
                THEN LET old == tasks[id].notes.a
                         new == tasks'[id].notes.a
                     IN  /\ req'[r].status = 200
                         /\ new = SelectSeq(old, LAMBDA n : n.id # note_id)
                         /\ (note_id \notin NoteIdsOf(tasks[id])) => new = old
                         /\ tasks'[id].updated_at = req[r].set_doc.updated_at
                         /\ \A k \in TaskFrame : tasks'[id][k] = tasks[id][k]
                         /\ req'[r].out.notes = new
                         /\ req'[r].out.updated_at = req[r].set_doc.updated_at.n
                ELSE /\ req'[r].status = 404
                     /\ req'[r].out = [error |-> "Not found"]
                     /\ tasks' = tasks

C22_RemoveById == [][C22_Remove]_vars

\* A delete_note naming an id no note has was answered 200 on a task with
\* one note; the note is still there and updated_at is the later instant
\* the request read, while the other client's delete_note of the stored
\* note waits for the store.
C22_Witness ==
    \E r \in Requests, o \in Requests :
        /\ req[r].route = "delete_note" /\ req[r].status = 200
        /\ req[r].path = "t1" /\ req[r].body = "k0"
        /\ "t1" \in DOMAIN tasks
        /\ Len(tasks["t1"].notes.a) = 1
        /\ tasks["t1"].updated_at = req[r].set_doc.updated_at
        /\ tasks["t1"].updated_at.n > tasks["t1"].notes.a[1].created_at
        /\ req[o].route = "delete_note" /\ req[o].pc = "built"
        /\ req[o].path = "t1" /\ req[o].body = tasks["t1"].notes.a[1].id

(***************************************************************************)
(* Listing                                                                 *)
(***************************************************************************)
\* Request r's list_tasks handler starts in this step.
Lists(r) ==
    /\ req'[r].route = "list_tasks"
    /\ InTrace(req'[r], "handler") /\ ~InTrace(req[r], "handler")

\* The value of a numeric query parameter, with the value that stands for
\* an absent one.
ParamOr(param, absent) == IF param = None THEN absent ELSE param.v

\* C23: list_tasks reads an absent page as 1 and an absent limit as 25; a
\* request with limit 0, limit above 100 or page 0 is answered 400 Bad
\* Request in the first step of the handler, before the count and the find,
\* with the store unchanged; every request that goes on to the store has
\* 1 <= limit <= 100 and page >= 1.
C23_Pagination ==
    \A r \in Requests :
        Lists(r) =>
            LET query == req'[r].path
                page == ParamOr(query.page, 1)
                limit == ParamOr(query.limit, 25)
            IN  /\ req'[r].body.page = page /\ req'[r].body.limit = limit
                /\ (limit = 0 \/ limit > 100 \/ page = 0) =>
                      /\ req'[r].pc = "done" /\ req'[r].status = 400
                      /\ tasks' = tasks /\ users' = users
                /\ req'[r].pc = "counted" =>
                      /\ 1 <= limit /\ limit <= 100 /\ page >= 1

C23_PaginationChecked == [][C23_Pagination]_vars

\* A list_tasks without parameters was answered 200 as page 1 with limit 25
\* next to a list_tasks with limit 101 answered 400, a task being stored.
C23_Witness ==
    \E r \in Requests, o \in Requests :
        /\ req[r].route = "list_tasks" /\ req[r].status = 200
        /\ req[r].path = [page |-> None, limit |-> None, status |-> None]
        /\ req[r].out.page = 1 /\ req[r].out.limit = 25
        /\ Len(req[r].out.tasks) = 1
        /\ req[o].route = "list_tasks" /\ req[o].status = 400
        /\ req[o].path.limit = Some(101) /\ req[o].path.page = None

\* The runs of pieces between the commas of a text, as pairs of the first
\* and last position (an empty run has last = first - 1).
Runs(s) ==
    {run \in (1..Len(s) + 1) \X (0..Len(s)) :
        /\ run[1] <= run[2] + 1
        /\ run[1] = 1 \/ s[run[1] - 1] = ","
        /\ run[2] = Len(s) \/ s[run[2] + 1] = ","
        /\ \A k \in run[1]..run[2] : s[k] # ","}

\* The entry of a run: its pieces from the first to the last that is not
\* whitespace.
EntryOf(s, run) ==
    LET ks == {k \in run[1]..run[2] : s[k] # " "}
    IN  IF ks = {} THEN <<>>
        ELSE SubSeq(s, CHOOSE a \in ks : \A k \in ks : a <= k,
                       CHOOSE b \in ks : \A k \in ks : b >= k)

\* The runs whose entry is not empty and is not a status.
Offending(s) ==
    {run \in Runs(s) :
        /\ EntryOf(s, run) # <<>>
        /\ EntryOf(s, run) \notin {<<"todo">>, <<"in_progress">>, <<"done">>}}

\* C24: a list_tasks with no status parameter, or with one that holds
\* nothing but whitespace and commas, counts and returns the tasks of every
\* status; one whose non-empty trimmed entries are all of todo, in_progress
\* and done filters by exactly those entries, in their order; one with
\* another entry is answered 400 Bad Request with a message that names the
\* first such entry, in the first step of the handler and with the store
\* unchanged.
C24_Statuses ==
    \A r \in Requests :
        /\ Lists(r) =>
              LET status == req'[r].path.status
                  s == status.v
                  entries == SelectSeq(s, LAMBDA c : c \notin {" ", ","})
              IN  IF status = None \/ (Offending(s) = {} /\ entries = <<>>)
                  THEN /\ req'[r].pc = "counted"
                       /\ req'[r].set_doc = None
                       /\ req'[r].patch = Cardinality(DOMAIN tasks)
                  ELSE IF Offending(s) = {}
                  THEN /\ req'[r].pc = "counted"
                       /\ req'[r].set_doc = Some(entries)
                       /\ req'[r].patch =
                             Cardinality({id \in DOMAIN tasks :
                                \E i \in 1..Len(entries) :
                                    tasks[id].status = JStr(entries[i])})
                  ELSE LET first == CHOOSE run \in Offending(s) :
                                       \A o \in Offending(s) : run[1] <= o[1]
                       IN  /\ req'[r].pc = "done" /\ req'[r].status = 400
                           /\ req'[r].out.error.status = EntryOf(s, first)
                           /\ tasks' = tasks /\ users' = users
        /\ (req[r].pc = "counted" /\ Completes(r) /\ req'[r].status = 200) =>
              {req'[r].out.tasks[i].id : i \in 1..Len(req'[r].out.tasks)} =
                  {id \in DOMAIN tasks :
                      \/ req[r].set_doc = None
                      \/ \E i \in 1..Len(req[r].set_doc.v) :
                            tasks[id].status = JStr(req[r].set_doc.v[i])}

C24_StatusFilter == [][C24_Statuses]_vars

\* A list_tasks with the status text " done," (whitespace first, nothing
\* after the comma) was answered 200 with the one stored task, whose status
\* is done.
C24_Witness ==
    \E r \in Requests :
        /\ req[r].route = "list_tasks" /\ req[r].status = 200
        /\ req[r].path.status = Some(<<" ", "done", ",">>)
        /\ Len(req[r].out.tasks) = 1
        /\ req[r].out.tasks[1].status = "done"

(***************************************************************************)
(* Bodies that do not decode                                               *)
(***************************************************************************)
\* Request r's update_task is answered in this step, its body holding a
\* recognized field of the wrong shape.
Undecodable(r) ==
    /\ Completes(r)
    /\ req'[r].route = "update_task"
    /\ req[r].pc # "built"
    /\ IsSome(req'[r].claims)
    /\ ~UpdateTaskRequest(req'[r].body).ok

\* C25: an update_task whose body holds a recognized field of the wrong
\* shape (a cti object that lacks a key, an assignee_id that is a number) is
\* answered 400 Bad Request; the handler does not run and the stored task,
\* updated_at included, stays as it was, whatever other fields the body
\* holds.
C25_Decode ==
    \A r \in Requests :
        Undecodable(r) =>
            /\ req'[r].status = 400
            /\ ~InTrace(req'[r], "handler")
            /\ tasks' = tasks

C25_DecodeFails == [][C25_Decode]_vars

(***************************************************************************)
(* The error taxonomy                                                      *)
(***************************************************************************)
\* The status of each kind of AppError.
StatusOf ==
    [Unauthorized |-> 401, Forbidden |-> 403, BadRequest |-> 400,
     Conflict |-> 409, NotFound |-> 404, Internal |-> 500, Database |-> 500]

SpecPublic == {"health_check", "register", "login"}
SpecAdmin ==
    {"admin_list_users", "admin_update_user", "admin_update_role",
     "admin_delete_user"}

\* C27: health, register and login are dispatched with no token and pass
\* neither require_auth nor require_admin; on every other route the handler
\* runs only after require_auth accepted the request's token; and
\* require_admin runs on exactly the admin routes, between require_auth and
\* the handler.
C27_RouteCoverage ==
    \A r \in Requests :
        LET q == req[r]
        IN  q.pc # "idle" =>
              /\ q.route \in AllRoutes
              /\ q.route \in SpecPublic =>
                    /\ q.trace = <<"handler">>
                    /\ IsNone(q.claims)
              /\ q.route \notin SpecPublic =>
                    /\ q.trace # <<>> /\ q.trace[1] = "require_auth"
                    /\ InTrace(q, "handler") =>
                          /\ IsSome(q.claims) /\ SignedByServer(q.header)
                          /\ q.claims.v = q.header.token.claims
                    /\ InTrace(q, "require_admin") <=>
                          (q.route \in SpecAdmin /\ Len(q.trace) >= 2)
                    /\ InTrace(q, "handler") =>
                          q.trace = IF q.route \in SpecAdmin THEN AdminStages
                                    ELSE <<"require_auth", "handler">>

\* A minted token of role user has run the handler of a protected route
\* outside the admin group, the role gate not consulted.
C27_Witness ==
    \E r \in Requests :
        LET q == req[r]
        IN  /\ q.pc = "done"
            /\ q.route = "list_categories" /\ q.status = 200
            /\ q.header.token \in tokens
            /\ q.header.token.claims.role = "user"
            /\ q.trace = <<"require_auth", "handler">>

(***************************************************************************)
(* Privileges                                                              *)
(***************************************************************************)
\* The accounts whose stored role is admin.
Admins(coll) == {id \in DOMAIN coll : coll[id].role = "admin"}

\* Slot r runs the handler of one of the given routes in this step.
HandlerRuns(r, routes) ==
    /\ req'[r].route \in routes
    /\ InTrace(req'[r], "handler") /\ ~InTrace(req[r], "handler")

\* C29: from a state with at least one stored admin, no admin_update_role
\* or admin_delete_user request bearing a valid admin token, a token
\* minted before a later role change included, leaves the store with no
\* admin account.
C29_NoLockout ==
    [][\A r \in Requests :
          (/\ HandlerRuns(r, {"admin_update_role", "admin_delete_user"})
           /\ Admins(users) # {}) => Admins(users') # {}]_vars

\* The step changes the role, email or username of a stored account, or
\* deletes one.
AccountTouched(id) ==
    \/ id \notin DOMAIN users'
    \/ users'[id].role # users[id].role
    \/ users'[id].email # users[id].email
    \/ users'[id].username # users[id].username

\* A step that touches an account is the handler of an admin route run for
\* a request whose minted token carries the role admin; an account that
\* appears in a step has the role user.
C28_OnlyAdminTokens ==
    [][/\ \A id \in DOMAIN users :
             AccountTouched(id) =>
                \E r \in Requests :
                    /\ HandlerRuns(r, SpecAdmin)
                    /\ req'[r].header.token \in tokens
                    /\ req'[r].header.token.claims.role = "admin"
       /\ \A id \in DOMAIN users' \ DOMAIN users :
             /\ users'[id].role = "user"
             /\ \E r \in Requests : HandlerRuns(r, {"register"})]_vars

\* C28: requests that are unauthenticated or carry a token of role user
\* never change a role, delete an account or edit an email or username;
\* register creates accounts of role user; so a system with no admin
\* account never acquires one through the API.
C28_NoAdminFromNone ==
    [][Admins(users) = {} => Admins(users') = {}]_vars

\* The roles an account may have.
SpecRoles == {"user", "admin"}

\* C30: every stored account's role is user or admin: register stores the
\* role user, admin_update_role answers 400 Bad Request to any other role
\* and stores nothing, and admin_update_user changes neither the role, the
\* secret hash, the id nor created_at of any account.
C30_Roles ==
    /\ [](\A id \in DOMAIN users : users[id].role \in SpecRoles)
    /\ [][\A r \in Requests :
            /\ HandlerRuns(r, {"register"}) =>
                  \A id \in DOMAIN users' \ DOMAIN users : users'[id].role = "user"
            /\ (/\ HandlerRuns(r, {"admin_update_role"})
                /\ req'[r].body.role \notin SpecRoles) =>
                  /\ req'[r].status = 400
                  /\ users' = users
            /\ HandlerRuns(r, {"admin_update_user"}) =>
                  /\ DOMAIN users' = DOMAIN users
                  /\ \A id \in DOMAIN users :
                        /\ users'[id].role = users[id].role
                        /\ users'[id].password_hash = users[id].password_hash
                        /\ users'[id].id = users[id].id
                        /\ users'[id].created_at = users[id].created_at]_vars

\* admin_update_role has answered 400 to the role root named for another,
\* stored account that register created, and that account's role is still
\* user.
C30_Witness ==
    \E r \in Requests :
        LET q == req[r]
        IN  /\ q.pc = "done" /\ q.route = "admin_update_role"
            /\ q.status = 400 /\ IsSome(q.claims)
            /\ q.body.role = "root"
            /\ q.path \in DOMAIN users /\ q.path # q.claims.v.sub
            /\ users[q.path].role = "user"

(***************************************************************************)
(* The scalar fields of a task                                             *)
(***************************************************************************)
SpecScalars == {"title", "description", "status"}

\* An update_task request completes its store round trip on a stored task.
Applies(r) ==
    /\ req[r].pc = "built" /\ req[r].route = "update_task"
    /\ req'[r].pc = "done" /\ req[r].path \in DOMAIN tasks

\* C31: the stored title, description and status of every task are strings,
\* never null, after any sequence of create_task and update_task; and an
\* update_task body that gives null for one of them leaves that field as
\* it was.
C31_ScalarsConcrete ==
    /\ [](\A id \in DOMAIN tasks : \A k \in SpecScalars : tasks[id][k].t = "str")
    /\ [][\A r \in Requests :
            Applies(r) =>
               /\ req'[r].status = 200
               /\ \A k \in SpecScalars :
                     (k \in DOMAIN req[r].body /\ req[r].body[k] = JNull) =>
                        tasks'[req[r].path][k] = tasks[req[r].path][k]]_vars

\* After an earlier update replaced the three fields, an update_task whose
\* body gives null for all three was answered 200 and the task still holds
\* the replaced values.
C31_Witness ==
    \E r \in Requests :
        LET q == req[r]
        IN  /\ q.pc = "done" /\ q.route = "update_task" /\ q.status = 200
            /\ q.body = [k \in SpecScalars |-> JNull]
            /\ tasks[q.path].title = JStr("T2")
            /\ tasks[q.path].description = JStr("D2")
            /\ tasks[q.path].status = JStr("done")

(***************************************************************************)
(* Tokens and the store                                                    *)
(***************************************************************************)
\* Slot r runs the given stage of the chain in this step.
StageRuns(r, stage) ==
    /\ Len(req'[r].trace) = Len(req[r].trace) + 1 \/ req[r].pc = "idle"
    /\ req'[r].trace # <<>>
    /\ req'[r].trace[Len(req'[r].trace)] = stage
    /\ req'[r] # req[r]

\* C32: the outcome of require_auth and of require_admin depends on the
\* token, the secret and the time only, never on the store: a token signed
\* by the server and not yet expired is accepted, any header not signed by
\* the server is answered 401, and the role gate lets through exactly the
\* Claims whose role is admin, whether or not the token's account is still
\* stored.
C32_StoreFree ==
    [][\A r \in Requests :
          LET q == req'[r]
              h == q.header
          IN  /\ StageRuns(r, "require_auth") =>
                    /\ (SignedByServer(h) /\ now < h.token.claims.exp) =>
                          /\ q.pc = "run"
                          /\ q.claims = Some(h.token.claims)
                    /\ ~SignedByServer(h) =>
                          q.pc = "done" /\ q.status = 401
              /\ StageRuns(r, "require_admin") =>
                    IF q.claims.v.role = "admin" THEN q.pc = "run"
                    ELSE q.pc = "done" /\ q.status = 403]_vars

\* One second before its expiry, the admin token of an account that
\* admin_delete_user removed has passed both gates and its handler answered
\* 200.
C32_Witness ==
    \E r \in Requests :
        LET q == req[r]
        IN  /\ q.pc = "done" /\ q.route = "admin_list_users" /\ q.status = 200
            /\ q.trace = AdminStages
            /\ q.claims.v.sub \notin DOMAIN users
            /\ now = q.claims.v.exp - 1

(***************************************************************************)
(* The modification stamp                                                  *)
(***************************************************************************)
\* C33: a task's stored updated_at never decreases and is never earlier
\* than its created_at, for any interleaving of update_task, add_note and
\* delete_note requests on the task.
C33_Monotone ==
    /\ [](\A id \in DOMAIN tasks : tasks[id].updated_at.n >= tasks[id].created_at.n)
    /\ [][\A id \in DOMAIN tasks \cap DOMAIN tasks' :
            tasks'[id].updated_at.n >= tasks[id].updated_at.n]_vars

(***************************************************************************)
(* The status of a task                                                    *)
(***************************************************************************)
SpecStatuses == {"todo", "in_progress", "done"}

\* C34: every stored task's status is one of todo, in_progress and done,
\* the set the list filter accepts: create_task stores todo and update_task
\* stores only a status of that set.
C34_StatusDomain ==
    \A id \in DOMAIN tasks :
        /\ tasks[id].status.t = "str"
        /\ tasks[id].status.s \in SpecStatuses
====
